---------------------------- MODULE Spec2Model ----------------------------
(***************************************************************************)
(* A model of the executable code of the notebooks of this repository:     *)
(*                                                                         *)
(*   - relative_score_fusion, the hybrid fusion function of                *)
(*     docs/docs/examples/vector_stores/qdrant_hybrid.ipynb;               *)
(*   - GetTrustworthinessScore and display_response of                     *)
(*     docs/docs/examples/cookbooks/cleanlab_tlm_rag.ipynb;                *)
(*   - get_agent_with_context_awareness and the query cells of the         *)
(*     context-augmented agent notebook (unnamed/part_000);                *)
(*   - the load, download, build, query engine and tools cells of the same *)
(*     notebook;                                                           *)
(*   - main() of docs/docs/examples/embeddings/deepinfra.ipynb;            *)
(*   - the handler cell of cleanlab_tlm_rag.ipynb run more than once;      *)
(*   - the cells of docs/docs/examples/cookbooks/oreilly_course_cookbooks/ *)
(*     Module-5/Observability.ipynb;                                       *)
(*   - sparse_doc_vectors and sparse_query_vectors of qdrant_hybrid.ipynb. *)
(*                                                                         *)
(* Similarities are Python floats in the code.  The model keeps them as    *)
(* exact rationals (records [num, den] with den > 0), so that min-max      *)
(* normalisation, the sum and the product by alpha are computed exactly.   *)
(***************************************************************************)
EXTENDS Integers, Sequences, FiniteSets, TLC

VARIABLES
    \* ---- qdrant_hybrid.ipynb -------------------------------------------
    fpc,            \* position of the hybrid query: "idle", "retrieved", "fused"
    sparse_top_k,   \* sparse_top_k of the query engine
    top_k,          \* similarity_top_k, handed to the fusion function as top_k
    alpha,          \* alpha, handed to the fusion function (a rational)
    dense_result,   \* VectorStoreQueryResult of the dense query
    sparse_result,  \* VectorStoreQueryResult of the sparse query
    all_nodes_dict, \* the candidate nodes relative_score_fusion ranks
    fused_result,   \* what relative_score_fusion returned or raised
    \* ---- cleanlab_tlm_rag.ipynb ------------------------------------------
    trustworthiness_score, \* event_handler.trustworthiness_score, in thousandths
    events,         \* GetTrustworthinessScore.events
    dispatched,     \* every event the root dispatcher has delivered, in order
    qpc,            \* per query: "idle", "running", "answered", "displayed"
    response,       \* per query: the LLM completion its response was built from
    printed,        \* per query: the score display_response printed, in hundredths
    overlap,        \* whether a query was started while another one was running
    \* ---- the context-augmented agent notebook ----------------------------
    apc,            \* position of the running cell: "idle", "retrieving",
                    \* "retrieved", "built", "running"
    calls,          \* calls of get_agent_with_context_awareness so far
    tools_arg,      \* the tools argument of the call in progress
    steps,          \* what the cell in progress has done, in order
    context_nodes,  \* context_nodes of the call in progress (the node texts)
    agent,          \* the FunctionAgent the name agent is bound to
    n_agents,       \* FunctionAgent instances constructed so far
    ctx,            \* the Context the name ctx is bound to (0: unbound)
    contexts,       \* the Context objects created so far
    runs,           \* the agent.run() calls so far
    \* ---- main() of deepinfra.ipynb ----------------------------------------
    mpc,            \* position of main(): "idle", "awaiting"
    main_log,       \* what the latest run of main() did, in order
    \* ---- the index cells of the context-augmented agent notebook --------
    ipc,            \* the cell to run next: "load", "download", "build",
                    \* "engines", "tools", "query"
    storage,        \* per directory under ./storage: "absent", "partial" or
                    \* the file the index persisted there was built from
    data,           \* per file under data/10q: "missing", "empty" or "ok"
    index_loaded,   \* "unbound", "True" or "False"
    docs,           \* march_docs, june_docs, sept_docs
    indexes,        \* march_index, june_index, sept_index
    engines,        \* march_engine, june_engine, sept_engine
    query_engine_tools, \* the tools list, <<>> while unbound
    itrace,         \* the SDK calls of this kernel session, in order
    krun,           \* kernel sessions so far
    last_run,       \* what the previous kernel session's build cell did
    \* ---- the handler cell of cleanlab_tlm_rag.ipynb, run again -----------
    registered,     \* the handler instances on the root dispatcher, in order
    class_events,   \* per GetTrustworthinessScore class object: its events list
    \* ---- Observability.ipynb ----------------------------------------------
    opc,            \* position of the next cell in the notebook
    essay_file,     \* whether paul_graham_essay.txt is in the working directory
    query_calls,    \* the query_engine.query calls made, in order
    session,        \* whether px.launch_app() has returned a session
    global_handler, \* the global handler: "none" or "arize_phoenix"
    spans,          \* the spans Phoenix has collected, in order
    documents,      \* documents: "unbound" or "loaded"
    obs_index,      \* index: its number of nodes, 0 while unbound
    query_engine,   \* query_engine: its similarity_top_k, 0 while unbound
    queries_df,     \* the exported query dataframe
    retrieved_documents_df, \* the exported retrieved-documents dataframe
    eval_runs,      \* the run_evals calls made, in order
    \* ---- sparse_doc_vectors, sparse_query_vectors --------------------------
    spc,            \* the function that returned last: "idle", "doc", "query"
    tvecs,          \* tvecs of that call: per text the pooled weights
    sparse_out      \* what that call returned: indices and vecs

fusion_vars ==
    <<fpc, sparse_top_k, top_k, alpha, dense_result, sparse_result,
      all_nodes_dict, fused_result>>

tlm_vars ==
    <<trustworthiness_score, events, dispatched, qpc, response, printed, overlap>>

agent_vars ==
    <<apc, calls, tools_arg, steps, context_nodes, agent, n_agents, ctx, contexts, runs>>

main_vars == <<mpc, main_log>>

index_vars ==
    <<ipc, storage, data, index_loaded, docs, indexes, engines,
      query_engine_tools, itrace, krun, last_run>>

handler_vars == <<registered, class_events>>

obs_vars ==
    <<opc, essay_file, query_calls, session, global_handler, spans, documents, obs_index, query_engine,
      queries_df, retrieved_documents_df, eval_runs>>

sparse_vars == <<spc, tvecs, sparse_out>>

vars ==
    <<fusion_vars, tlm_vars, agent_vars, main_vars, index_vars,
      handler_vars, obs_vars, sparse_vars>>

----------------------------------------------------------------------------
(* Bounds of the model. *)

\* Number of nodes of the collection; a result list holds each node at most once.
MaxNode == 3

\* similarity_top_k ranges over 0..MaxTopK.
MaxTopK == 3

NodeIds == 1..MaxNode

\* Queries the RAG pipeline answers, one after the other or concurrently.
MaxQueries == 2

\* Kernel sessions of the context-augmented agent notebook.
MaxRuns == 2

\* Handler instances registered on the root dispatcher.
MaxHandlers == 3

\* query_engine.query calls in one session of Observability.ipynb.
MaxQueryCalls == 5

\* Traced index builds in one session of Observability.ipynb.
MaxIndexBuilds == 2

\* Texts in one call of sparse_doc_vectors or sparse_query_vectors.
MaxTexts == 2

\* similarity_top_k of the query engine of Observability.ipynb.
SimilarityTopK == 5

\* Queries the tools of query_engine_tools answer in one kernel session.
MaxIndexQueries == 1

\* Events the root dispatcher delivers in one run.
MaxEvents == 3

\* Cells of the agent notebook that call get_agent_with_context_awareness.
MaxCalls == 3

\* Tool calls the agent makes in one run.
MaxToolCalls == 2

\* Context objects created in one session.
MaxContexts == 2

\* Raw similarity values a vector store may report.
Sims == {0, 1, 2}

----------------------------------------------------------------------------
(* Exact rationals. *)

Frac(n, d) == [num |-> n, den |-> d]

FracAdd(a, b) == Frac(a.num * b.den + b.num * a.den, a.den * b.den)

FracMul(a, b) == Frac(a.num * b.num, a.den * b.den)

\* a > b, for positive denominators
FracGt(a, b) == a.num * b.den > b.num * a.den

FracEq(a, b) == a.num * b.den = b.num * a.den

FracLe(a, b) == ~FracGt(a, b)

Zero == Frac(0, 1)

\* The values alpha is drawn from: 0, 1/2 (the default) and 1.
Alphas == {Frac(0, 1), Frac(1, 2), Frac(1, 1)}

----------------------------------------------------------------------------
(* Python helpers. *)

SeqMax(s) ==
    LET values == {s[i] : i \in DOMAIN s}
    IN  CHOOSE x \in values : \A y \in values : y <= x

SeqMin(s) ==
    LET values == {s[i] : i \in DOMAIN s}
    IN  CHOOSE x \in values : \A y \in values : x <= y

\* A Python list built by a comprehension: the sequence of its values.
List(f) == f \o <<>>

\* [x[0] for x in tuples]
Keys(t) == List([i \in DOMAIN t |-> t[i][1]])

\* zip(a, b): pairs up to the shorter of the two
Zip(a, b) ==
    LET n == IF Len(a) <= Len(b) THEN Len(a) ELSE Len(b)
    IN  List([i \in 1..n |-> <<a[i], b[i]>>])

\* list.sort(key=lambda x: x[0], reverse=True) on (similarity, node) tuples with
\* integer keys.  The sort is stable, also with reverse=True: tuples with equal
\* keys keep their order.
SortTuplesDesc(t) ==
    LET rank(i) == Cardinality({j \in DOMAIN t :
                        \/ t[j][1] > t[i][1]
                        \/ (t[j][1] = t[i][1] /\ j < i)}) + 1
    IN  List([p \in DOMAIN t |-> t[CHOOSE i \in DOMAIN t : rank(i) = p]])

\* The same sort on (fused_sim, node) tuples, whose keys are rationals.
SortFusedDescMutNoSort(t) == t

\* The sort as if equal keys came out in the reverse of their order.
SortFusedDescMutUnstable(t) ==
    LET rank(i) == Cardinality({j \in DOMAIN t :
                        \/ FracGt(t[j][1], t[i][1])
                        \/ (FracEq(t[j][1], t[i][1]) /\ j > i)}) + 1
    IN  List([p \in DOMAIN t |-> t[CHOOSE i \in DOMAIN t : rank(i) = p]])

SortFusedDesc(t) ==
    LET rank(i) == Cardinality({j \in DOMAIN t :
                        \/ FracGt(t[j][1], t[i][1])
                        \/ (FracEq(t[j][1], t[i][1]) /\ j < i)}) + 1
    IN  List([p \in DOMAIN t |-> t[CHOOSE i \in DOMAIN t : rank(i) = p]])

\* s[:k]
SliceMutOffByOne(s, k) ==
    IF k >= 0
    THEN SubSeq(s, 1, IF k + 1 <= Len(s) THEN k + 1 ELSE Len(s))
    ELSE SubSeq(s, 1, Len(s) + k)

Slice(s, k) ==
    IF k >= 0
    THEN SubSeq(s, 1, IF k <= Len(s) THEN k ELSE Len(s))
    ELSE SubSeq(s, 1, Len(s) + k)

IdsOf(nodes) == {nodes[i].node_id : i \in DOMAIN nodes}

----------------------------------------------------------------------------
(* relative_score_fusion *)

\* all_nodes_dict: a dict keeps its keys in insertion order, so it is modelled
\* as the sequence of its values in key order.  {x.node_id: x for x in
\* dense_result.nodes} keeps one entry per node_id, at the place of the id's
\* first occurrence and with the node of its last occurrence; the loop over
\* sparse_result.nodes then adds the nodes whose id is not yet a key.
DictOfNodes(nodes) ==
    LET firsts == SelectSeq([i \in DOMAIN nodes |-> i],
                            LAMBDA i : \A j \in 1..(i - 1) : nodes[j].node_id # nodes[i].node_id)
        last(id) == CHOOSE i \in DOMAIN nodes :
                        /\ nodes[i].node_id = id
                        /\ \A j \in DOMAIN nodes : nodes[j].node_id = id => j <= i
    IN  List([p \in DOMAIN firsts |-> nodes[last(nodes[firsts[p]].node_id)]])

AllNodesDictMutNoDedup(dense_nodes, sparse_nodes) == dense_nodes \o sparse_nodes

AllNodesDictMutDenseOnly(dense_nodes, sparse_nodes) == DictOfNodes(dense_nodes)

AllNodesDict(dense_nodes, sparse_nodes) ==
    LET d == DictOfNodes(dense_nodes)
        new == SelectSeq([i \in DOMAIN sparse_nodes |-> i],
                         LAMBDA i : /\ sparse_nodes[i].node_id \notin IdsOf(dense_nodes)
                                    /\ \A j \in 1..(i - 1) :
                                          sparse_nodes[j].node_id # sparse_nodes[i].node_id)
    IN  d \o List([p \in DOMAIN new |-> sparse_nodes[new[p]]])

\* [(x - min) / (max - min) for x in similarities]; max() of an empty list
\* raises ValueError, and max = min raises ZeroDivisionError.
CanNormalizeMutAlways(sims) == TRUE

CanNormalize(sims) == Len(sims) > 0 /\ SeqMax(sims) # SeqMin(sims)

MaxOfEmptyMutNever(sims) == FALSE

\* max(sparse_similarities), max(dense_similarities): max() of an empty list
\* raises ValueError.
MaxOfEmpty(sims) == sims = <<>>

SanityCheckMutDenseOnly(dense, sparse) == dense.none = {}

\* The four assert ... is not None statements.  A result's none field names
\* those of its fields nodes and similarities that are None.
SanityCheck(dense, sparse) == dense.none = {} /\ sparse.none = {}

NormalizeMutNoMin(sims) ==
    LET max_sim == SeqMax(sims)
        min_sim == SeqMin(sims)
    IN  List([i \in DOMAIN sims |-> Frac(sims[i], max_sim - min_sim)])

Normalize(sims) ==
    LET max_sim == SeqMax(sims)
        min_sim == SeqMin(sims)
    IN  List([i \in DOMAIN sims |-> Frac(sims[i] - min_sim, max_sim - min_sim)])

\* sparse_per_node / dense_per_node: {tuples[i][1].node_id: x for i, x in
\* enumerate(normalized)}; a later entry of the same node_id replaces an
\* earlier one.  PerNodeGet is per_node.get(node_id, 0).
PerNodeGetMutDefaultOne(tuples, normalized, node_id) ==
    LET hits == {i \in DOMAIN tuples : tuples[i][2].node_id = node_id}
    IN  IF hits = {} THEN Frac(1, 1)
        ELSE normalized[CHOOSE i \in hits : \A j \in hits : j <= i]

PerNodeGet(tuples, normalized, node_id) ==
    LET hits == {i \in DOMAIN tuples : tuples[i][2].node_id = node_id}
    IN  IF hits = {} THEN Zero
        ELSE normalized[CHOOSE i \in hits : \A j \in hits : j <= i]

\* fused_sim = alpha * (sparse_sim + dense_sim)
FusedSimMutWeighted(a, sparse_sim, dense_sim) ==
    FracAdd(FracMul(a, sparse_sim),
            FracMul(Frac(a.den - a.num, a.den), dense_sim))

FusedSim(a, sparse_sim, dense_sim) == FracMul(a, FracAdd(sparse_sim, dense_sim))

\* The (fused_sim, node) tuples in the order of all_nodes_dict, before the sort.
FusedSimilarities(dense, sparse, a) ==
    LET sparse_result_tuples == SortTuplesDesc(Zip(sparse.similarities, sparse.nodes))
        dense_result_tuples  == SortTuplesDesc(Zip(dense.similarities, dense.nodes))
        candidates           == AllNodesDict(dense.nodes, sparse.nodes)
        sparse_similarities  ==
            Normalize(Keys(sparse_result_tuples))
        dense_similarities   ==
            Normalize(Keys(dense_result_tuples))
    IN  List([p \in DOMAIN candidates |->
            <<FusedSim(a,
                       PerNodeGet(sparse_result_tuples, sparse_similarities,
                                  candidates[p].node_id),
                       PerNodeGet(dense_result_tuples, dense_similarities,
                                  candidates[p].node_id)),
              candidates[p]>>])

ResponseObjectMutIdsReversed(fused_similarities) ==
    [status       |-> "ok",
     nodes        |-> [i \in DOMAIN fused_similarities |-> fused_similarities[i][2]],
     similarities |-> [i \in DOMAIN fused_similarities |-> fused_similarities[i][1]],
     ids          |-> [i \in DOMAIN fused_similarities |->
                           fused_similarities[Len(fused_similarities) + 1 - i][2].node_id]]

\* VectorStoreQueryResult(nodes=[x[1] ...], similarities=[x[0] ...],
\* ids=[x[1].node_id ...]) over the cut list of (fused_sim, node) tuples.
ResponseObject(fused_similarities) ==
    [status       |-> "ok",
     nodes        |-> [i \in DOMAIN fused_similarities |-> fused_similarities[i][2]],
     similarities |-> [i \in DOMAIN fused_similarities |-> fused_similarities[i][1]],
     ids          |-> [i \in DOMAIN fused_similarities |->
                           fused_similarities[i][2].node_id]]

\* What the call leaves in an argument, as if the numerators x - min of the
\* normalisation were written back into its similarities.
ArgumentAfterCallMutInPlace(r) ==
    IF r.similarities = <<>> THEN r
    ELSE [r EXCEPT !.similarities =
             [i \in DOMAIN r.similarities |-> r.similarities[i] - SeqMin(r.similarities)]]

\* What the call leaves in an argument: list(zip(...)) makes a new list, which
\* is the one sorted, and the normalised similarities are new lists bound to
\* local names; no statement assigns to the argument or to one of its lists.
ArgumentAfterCall(r) == r

\* The whole function.  The sparse list is normalised first, so its error is
\* the one raised when both lists are degenerate.
relative_score_fusion(dense, sparse, a, k) ==
    LET sparse_sims == Keys(Zip(sparse.similarities, sparse.nodes))
        dense_sims  == Keys(Zip(dense.similarities, dense.nodes))
    IN  IF ~SanityCheck(dense, sparse) THEN [status |-> "AssertionError"]
        ELSE IF MaxOfEmpty(sparse_sims) THEN [status |-> "ValueError"]
        ELSE IF ~CanNormalize(sparse_sims) THEN [status |-> "ZeroDivisionError"]
        ELSE IF MaxOfEmpty(dense_sims) THEN [status |-> "ValueError"]
        ELSE IF ~CanNormalize(dense_sims) THEN [status |-> "ZeroDivisionError"]
        ELSE ResponseObject(Slice(SortFusedDesc(FusedSimilarities(dense, sparse, a)), k))

----------------------------------------------------------------------------
(* The hybrid query: the vector store answers the dense and the sparse      *)
(* query with at most sparse_top_k nodes each, every node at most once and  *)
(* in the order of its score, and hands both results to the fusion.  The    *)
(* collection holds MaxNode nodes.                                          *)

\* A node object; obj tells the object of the dense result from the object
\* of the sparse result that carries the same node_id.
Node(id, o) == [node_id |-> id, obj |-> o]

InjectiveSeqs(S, n) ==
    {s \in [1..n -> S] : \A i, j \in 1..n : i # j => s[i] # s[j]}

NonIncreasing(s) == \A i \in 1..(Len(s) - 1) : s[i] >= s[i + 1]

\* The result of a dense query for k nodes: a nearest-neighbour search finds k
\* nodes whenever the collection holds as many.  Node ids are opaque keys, so
\* the nodes of the dense result are named 1, 2, ... in the order of the
\* result; the sparse result ranges over every arrangement.
DenseResults(k) ==
    { [nodes        |-> [i \in 1..k |-> Node(i, "dense")],
       similarities |-> sims,
       none         |-> {}] :
        sims \in {s \in [1..k -> Sims] : NonIncreasing(s)} }

\* The results a sparse query for at most k nodes may return: only the nodes
\* that share a token with the query match, so there may be fewer than k.
SparseResults(k) ==
    UNION {
        { [nodes        |-> [i \in 1..n |-> Node(ids[i], "sparse")],
           similarities |-> sims,
           none         |-> {}] :
            ids \in InjectiveSeqs(NodeIds, n),
            sims \in {s \in [1..n -> Sims] : NonIncreasing(s)} }
        : n \in 0..k }

NoResult == [status |-> "none"]

\* A result of no node: what a query returns that no point can answer.
EmptyResult == [nodes |-> <<>>, similarities |-> <<>>, none |-> {}]

\* VectorStoreQueryResult objects whose nodes, similarities or both were left
\* at their default, None.  A field that is None is kept as <<>> and named in
\* none.
DefaultedResults(o) ==
    { [nodes        |-> IF "nodes" \in S THEN <<>> ELSE <<Node(1, o), Node(2, o)>>,
       similarities |-> IF "similarities" \in S THEN <<>> ELSE <<2, 1>>,
       none         |-> S] :
        S \in (SUBSET {"nodes", "similarities"}) \ {{}} }

\* index.as_query_engine(similarity_top_k=..., sparse_top_k=...,
\* vector_store_query_mode="hybrid").query(...): the two retrievals.
Retrieve ==
    /\ fpc = "idle"
    /\ dense_result' \in DenseResults(sparse_top_k) \cup {EmptyResult}
                         \cup DefaultedResults("dense")
    /\ sparse_result' \in SparseResults(sparse_top_k) \cup DefaultedResults("sparse")
    /\ fpc' = "retrieved"
    /\ UNCHANGED <<sparse_top_k, top_k, alpha, all_nodes_dict, fused_result>>
    /\ UNCHANGED <<tlm_vars, agent_vars, main_vars, index_vars,
                   handler_vars, obs_vars, sparse_vars>>

\* hybrid_fusion_fn(dense_result, sparse_result, alpha, top_k).  all_nodes_dict
\* is built after the sanity check and before the first normalisation, so it
\* exists also when a normalisation raises, and not when an assert fails.
Fuse ==
    /\ fpc = "retrieved"
    /\ all_nodes_dict' = IF SanityCheck(dense_result, sparse_result)
                         THEN AllNodesDict(dense_result.nodes, sparse_result.nodes)
                         ELSE <<>>
    /\ fused_result' = relative_score_fusion(dense_result, sparse_result, alpha, top_k)
    /\ dense_result' = ArgumentAfterCall(dense_result)
    /\ sparse_result' = ArgumentAfterCall(sparse_result)
    /\ fpc' = "fused"
    /\ UNCHANGED <<sparse_top_k, top_k, alpha>>
    /\ UNCHANGED <<tlm_vars, agent_vars, main_vars, index_vars,
                   handler_vars, obs_vars, sparse_vars>>


----------------------------------------------------------------------------
(* Properties of relative_score_fusion. *)

Min(a, b) == IF a <= b THEN a ELSE b

DistinctValues(s) == Cardinality({s[i] : i \in DOMAIN s})

UnionIds == IdsOf(dense_result.nodes) \cup IdsOf(sparse_result.nodes)

SharedIds == IdsOf(dense_result.nodes) \cap IdsOf(sparse_result.nodes)

Returned == fpc = "fused" /\ fused_result.status = "ok"

\* Neither result has a field that is None.
BothLists == dense_result.none = {} /\ sparse_result.none = {}

\* The score the definition of relative score fusion gives node id n in result
\* list r: its min-max normalised similarity, 0 when r does not hold n.
RelativeScore(r, n) ==
    IF n \in IdsOf(r.nodes)
    THEN LET i == CHOOSE j \in DOMAIN r.nodes : r.nodes[j].node_id = n
         IN  Frac(r.similarities[i] - SeqMin(r.similarities),
                  SeqMax(r.similarities) - SeqMin(r.similarities))
    ELSE Zero

\* C1: when both result lists hold at least two distinct similarity values the
\* call returns, and it returns exactly min(top_k, number of distinct node ids
\* of the two lists) nodes, whatever sparse_top_k was.
C1_TopKBoundsResult ==
    (/\ fpc = "fused"
     /\ BothLists
     /\ DistinctValues(dense_result.similarities) >= 2
     /\ DistinctValues(sparse_result.similarities) >= 2)
    => /\ fused_result.status = "ok"
       /\ Len(fused_result.nodes) = Min(top_k, Cardinality(UnionIds))

\* The cut happens: more candidates than top_k, and sparse_top_k above top_k.
C1_Witness ==
    /\ Returned
    /\ top_k = 2
    /\ sparse_top_k = 3
    /\ Cardinality(UnionIds) = 3
    /\ SharedIds # {}
    /\ Len(fused_result.nodes) = 2

\* C2: the returned similarities are in non-increasing order, and no node the
\* top_k cut leaves out has a fused score strictly greater than the score of a
\* returned node.
C2_RankedAndOrdered ==
    Returned =>
        LET sims  == fused_result.similarities
            fused == FusedSimilarities(dense_result, sparse_result, alpha)
        IN  /\ \A i, j \in DOMAIN sims : i < j => FracLe(sims[j], sims[i])
            /\ \A p \in DOMAIN fused :
                  fused[p][2].node_id \notin IdsOf(fused_result.nodes)
                  => \A i \in DOMAIN sims : ~FracGt(fused[p][1], sims[i])

\* The sort reorders the candidates and the cut drops a lower-scored node.
C2_Witness ==
    /\ Returned
    /\ Len(fused_result.nodes) = 2
    /\ FracGt(fused_result.similarities[1], fused_result.similarities[2])
    /\ fused_result.ids[1] # all_nodes_dict[1].node_id
    /\ \E p \in DOMAIN all_nodes_dict :
          /\ all_nodes_dict[p].node_id \notin IdsOf(fused_result.nodes)
          /\ FracGt(fused_result.similarities[2],
                    FusedSimilarities(dense_result, sparse_result, alpha)[p][1])

\* C3: every returned node is a node object of the dense or of the sparse
\* result, and no node_id occurs twice in the returned ids, also when a node_id
\* is in both lists.
C3_OnlyInputNodesNoDuplicates ==
    Returned =>
        /\ \A i \in DOMAIN fused_result.nodes :
              \/ \E j \in DOMAIN dense_result.nodes :
                    fused_result.nodes[i] = dense_result.nodes[j]
              \/ \E j \in DOMAIN sparse_result.nodes :
                    fused_result.nodes[i] = sparse_result.nodes[j]
        /\ \A i, j \in DOMAIN fused_result.ids :
              i # j => fused_result.ids[i] # fused_result.ids[j]

\* A node_id of both lists is returned, together with a sparse-only node.
C3_Witness ==
    /\ Returned
    /\ \E i \in DOMAIN fused_result.ids : fused_result.ids[i] \in SharedIds
    /\ \E i \in DOMAIN fused_result.nodes : fused_result.nodes[i].obj = "sparse"
    /\ Len(fused_result.ids) = 3

\* Min-max normalisation of one list of similarities runs from 0 to 1.
C4_Normalized(sims) ==
    LET n == Normalize(sims)
        one == Frac(1, 1)
    IN  \A i \in DOMAIN sims :
           /\ (sims[i] = SeqMax(sims)) => FracEq(n[i], one)
           /\ (sims[i] = SeqMin(sims)) => FracEq(n[i], Zero)
           /\ (sims[i] # SeqMax(sims) /\ sims[i] # SeqMin(sims))
                 => (FracGt(n[i], Zero) /\ FracGt(one, n[i]))
           /\ \A j \in DOMAIN sims : sims[i] < sims[j] => FracGt(n[j], n[i])

\* C4: in a list with at least two distinct similarity values the normalised
\* similarities run from 0 (the lowest) to 1 (the highest), strictly in between
\* for every other value and in the order of the raw values; and the fused
\* score of every node is alpha * (normalised sparse + normalised dense), with 0
\* for a list that does not hold the node.
C4_RelativeScoreFusion ==
    Returned =>
        /\ C4_Normalized(dense_result.similarities)
        /\ C4_Normalized(sparse_result.similarities)
        /\ \A i \in DOMAIN fused_result.ids :
              FracEq(fused_result.similarities[i],
                     FracMul(alpha,
                             FracAdd(RelativeScore(sparse_result, fused_result.ids[i]),
                                     RelativeScore(dense_result, fused_result.ids[i]))))

\* A returned node of both lists with an in-between similarity in one of them,
\* next to a returned node that only one list holds.
C4_Witness ==
    /\ Returned
    /\ alpha = Frac(1, 2)
    /\ DistinctValues(dense_result.similarities) = 3
    /\ \E i \in DOMAIN fused_result.ids :
          /\ fused_result.ids[i] \in SharedIds
          /\ FracEq(RelativeScore(dense_result, fused_result.ids[i]), Frac(1, 2))
          /\ FracEq(fused_result.similarities[i], Frac(3, 4))
    /\ \E i \in DOMAIN fused_result.ids : fused_result.ids[i] \notin SharedIds

Empty(r) == r.nodes = <<>> \/ r.similarities = <<>>

Raised == fused_result.status \in {"AssertionError", "ValueError", "ZeroDivisionError"}

\* C17: when the nodes or the similarities of the dense or of the sparse
\* result are an empty list, the call raises and returns no result: ValueError
\* from max() of the empty list, or ZeroDivisionError when the sparse list,
\* which is normalised first, is not empty and has a single similarity value.
C17_EmptyListRaises ==
    (fpc = "fused" /\ BothLists /\ (Empty(dense_result) \/ Empty(sparse_result)))
    => /\ Raised
       /\ Empty(sparse_result) => fused_result.status = "ValueError"
       /\ (~Empty(sparse_result) /\ DistinctValues(sparse_result.similarities) >= 2)
          => fused_result.status = "ValueError"
       /\ (~Empty(sparse_result) /\ DistinctValues(sparse_result.similarities) = 1)
          => fused_result.status = "ZeroDivisionError"

\* The sparse query matched nothing while the dense result would normalise.
C17_Witness ==
    /\ fpc = "fused"
    /\ sparse_result = EmptyResult
    /\ Len(dense_result.nodes) = 3
    /\ DistinctValues(dense_result.similarities) = 3
    /\ top_k = 2
    /\ fused_result.status = "ValueError"

\* C18: when neither list is empty and all similarities of the dense or of
\* the sparse list are equal, a list of one node included, the call raises
\* ZeroDivisionError; the call returns a result exactly when both lists hold
\* at least two distinct similarity values.
C18_EqualSimilaritiesRaise ==
    (fpc = "fused" /\ BothLists)
    => /\ (/\ ~Empty(dense_result)
           /\ ~Empty(sparse_result)
           /\ \/ DistinctValues(dense_result.similarities) = 1
              \/ DistinctValues(sparse_result.similarities) = 1)
          => fused_result.status = "ZeroDivisionError"
       /\ (fused_result.status = "ok")
          <=> /\ DistinctValues(dense_result.similarities) >= 2
              /\ DistinctValues(sparse_result.similarities) >= 2

\* sparse_top_k = 1: one node in each list.
C18_Witness ==
    /\ fpc = "fused"
    /\ sparse_top_k = 1
    /\ Len(sparse_result.nodes) = 1
    /\ Len(dense_result.nodes) = 1
    /\ fused_result.status = "ZeroDivisionError"

\* C19: for the dense result, the sparse result and the top_k of the call,
\* every alpha > 0 gives the same nodes in the same order, with similarities
\* in the proportion of the alphas; with alpha = 0 every returned similarity
\* is 0.
C19_AlphaKeepsRanking ==
    Returned =>
        /\ FracGt(alpha, Zero)
           => \A a \in {b \in Alphas : FracGt(b, Zero)} :
                 LET other == relative_score_fusion(dense_result, sparse_result, a, top_k)
                 IN  /\ other.status = "ok"
                     /\ other.ids = fused_result.ids
                     /\ other.nodes = fused_result.nodes
                     /\ \A i \in DOMAIN other.similarities :
                           FracEq(FracMul(alpha, other.similarities[i]),
                                  FracMul(a, fused_result.similarities[i]))
        /\ FracEq(alpha, Zero)
           => \A i \in DOMAIN fused_result.similarities :
                 FracEq(fused_result.similarities[i], Zero)

\* A call with alpha = 1/2 whose ranking is not the order of the candidates:
\* a node only the sparse list holds is returned and an earlier candidate is
\* cut.
C19_Witness ==
    /\ Returned
    /\ alpha = Frac(1, 2)
    /\ top_k = 2
    /\ Len(all_nodes_dict) = 3
    /\ fused_result.ids = <<all_nodes_dict[1].node_id, all_nodes_dict[3].node_id>>
    /\ fused_result.nodes[2].obj = "sparse"
    /\ FracGt(fused_result.similarities[2], Zero)

\* C20: when the nodes or the similarities of the dense or of the sparse
\* result are None the call fails with AssertionError, before the candidates
\* are collected and before any normalisation, and returns no result; the
\* assertion fails in no other case.
C20_SanityCheck ==
    fpc = "fused"
    => /\ ~BothLists
          => /\ fused_result.status = "AssertionError"
             /\ all_nodes_dict = <<>>
       /\ fused_result.status = "AssertionError" => ~BothLists

\* Only the similarities of the sparse result are None; the dense result holds
\* two nodes.
C20_Witness ==
    /\ fpc = "fused"
    /\ dense_result.none = {}
    /\ Len(dense_result.nodes) = 2
    /\ sparse_result.none = {"similarities"}
    /\ sparse_result.nodes # <<>>
    /\ fused_result.status = "AssertionError"

\* The position of node id n among the candidates.
DictPos(n) == CHOOSE p \in DOMAIN all_nodes_dict : all_nodes_dict[p].node_id = n

\* C21: the nodes, similarities and ids of the result have the same length;
\* at every position the id is the node_id of the node and the similarity is
\* the fused score of that node, alpha * (normalised sparse + normalised
\* dense); and the node is the candidate object of that id.
C21_ResultWellFormed ==
    Returned =>
        /\ Len(fused_result.nodes) = Len(fused_result.similarities)
        /\ Len(fused_result.nodes) = Len(fused_result.ids)
        /\ \A i \in DOMAIN fused_result.nodes :
              LET n == fused_result.nodes[i].node_id
              IN  /\ fused_result.ids[i] = n
                  /\ fused_result.nodes[i] = all_nodes_dict[DictPos(n)]
                  /\ FracEq(fused_result.similarities[i],
                            FracMul(alpha, FracAdd(RelativeScore(sparse_result, n),
                                                   RelativeScore(dense_result, n))))

\* A result of three nodes, not in the order of the candidates and not all of
\* one score, one of them a node only the sparse list holds.
C21_Witness ==
    /\ Returned
    /\ Len(fused_result.ids) = 3
    /\ alpha = Frac(1, 1)
    /\ FracGt(fused_result.similarities[1], fused_result.similarities[3])
    /\ fused_result.ids # <<all_nodes_dict[1].node_id, all_nodes_dict[2].node_id,
                            all_nodes_dict[3].node_id>>
    /\ \E i \in DOMAIN fused_result.nodes : fused_result.nodes[i].obj = "sparse"

\* C22: the candidates are the dense nodes in their order followed by the
\* sparse-only nodes in the order of the sparse list; returned nodes of equal
\* fused score are in the order of the candidates; and a candidate that was
\* cut with the score of a returned node comes after that node among the
\* candidates.
C22_TiesKeepCandidateOrder ==
    Returned =>
        LET fused == FusedSimilarities(dense_result, sparse_result, alpha)
            dense_ids == IdsOf(dense_result.nodes)
        IN  /\ all_nodes_dict =
                  dense_result.nodes
                  \o SelectSeq(sparse_result.nodes, LAMBDA x : x.node_id \notin dense_ids)
            /\ \A i, j \in DOMAIN fused_result.ids :
                  (i < j /\ FracEq(fused_result.similarities[i], fused_result.similarities[j]))
                  => DictPos(fused_result.ids[i]) < DictPos(fused_result.ids[j])
            /\ \A p \in DOMAIN all_nodes_dict :
                  all_nodes_dict[p].node_id \notin IdsOf(fused_result.nodes)
                  => \A i \in DOMAIN fused_result.ids :
                        FracEq(fused[p][1], fused_result.similarities[i])
                        => DictPos(fused_result.ids[i]) < p

\* Two returned nodes tie with a third candidate, which the cut drops; the
\* ranking is not the order of the candidates.
C22_Witness ==
    /\ Returned
    /\ top_k = 2
    /\ FracGt(alpha, Zero)
    /\ Len(all_nodes_dict) = 3
    /\ fused_result.ids[1] # all_nodes_dict[1].node_id
    /\ \E p \in DOMAIN all_nodes_dict :
          /\ all_nodes_dict[p].node_id \notin IdsOf(fused_result.nodes)
          /\ FracEq(FusedSimilarities(dense_result, sparse_result, alpha)[p][1],
                    fused_result.similarities[2])

InBoth(n) == n \in IdsOf(dense_result.nodes) /\ n \in IdsOf(sparse_result.nodes)

Highest(r, n) ==
    \E i \in DOMAIN r.nodes :
       r.nodes[i].node_id = n /\ r.similarities[i] = SeqMax(r.similarities)

TwoAlpha == FracMul(Frac(2, 1), alpha)

\* C23 as stated: every returned similarity is in [0, 2 * alpha], a node of
\* only one list scores at most alpha, and a node scores 2 * alpha only if it
\* has the highest similarity in both lists, for every alpha >= 0.
C23_ScoresBounded ==
    Returned =>
        \A i \in DOMAIN fused_result.ids :
           LET n == fused_result.ids[i]
               x == fused_result.similarities[i]
           IN  /\ FracLe(Zero, x)
               /\ FracLe(x, TwoAlpha)
               /\ ~InBoth(n) => FracLe(x, alpha)
               /\ FracEq(x, TwoAlpha)
                  => (Highest(dense_result, n) /\ Highest(sparse_result, n))

\* C23 as amended: every returned similarity is in [0, 2 * alpha] and a node
\* of only one list scores at most alpha, for every alpha >= 0; for alpha > 0
\* a node scores 2 * alpha only if it has the highest similarity in both
\* lists, and for alpha = 0 every node scores 0 = 2 * alpha.
C23_ScoresBoundedPositiveAlpha ==
    Returned =>
        \A i \in DOMAIN fused_result.ids :
           LET n == fused_result.ids[i]
               x == fused_result.similarities[i]
           IN  /\ FracLe(Zero, x)
               /\ FracLe(x, TwoAlpha)
               /\ ~InBoth(n) => FracLe(x, alpha)
               /\ (FracGt(alpha, Zero) /\ FracEq(x, TwoAlpha))
                  => (Highest(dense_result, n) /\ Highest(sparse_result, n))
               /\ FracEq(alpha, Zero) => FracEq(x, TwoAlpha)

\* At alpha = 1/2 the first node scores 1.0, a node of one list only is
\* returned and a node of both lists scores in between.
C23_Witness ==
    /\ Returned
    /\ alpha = Frac(1, 2)
    /\ Len(fused_result.ids) = 3
    /\ FracEq(fused_result.similarities[1], Frac(1, 1))
    /\ \E i \in DOMAIN fused_result.ids :
          /\ ~InBoth(fused_result.ids[i])
          /\ FracLe(fused_result.similarities[i], alpha)
    /\ \E i \in DOMAIN fused_result.ids :
          /\ InBoth(fused_result.ids[i])
          /\ FracGt(fused_result.similarities[i], Zero)
          /\ FracGt(Frac(1, 1), fused_result.similarities[i])

----------------------------------------------------------------------------
(* cleanlab_tlm_rag.ipynb: the event handler and display_response. *)

Queries == 1..MaxQueries

\* Trustworthiness scores TLM may report, in thousandths: 0.123 and 0.957.
Scores == {123, 957}

\* An LLMCompletionEndEvent of query q whose response.additional_kwargs holds
\* "trustworthiness_score": s; id_ tells one event from the next.
CompletionEnd(id, q, s) ==
    [id_ |-> id, type |-> "LLMCompletionEndEvent", query |-> q,
     has_score |-> TRUE, score |-> s]

\* An LLMCompletionEndEvent of an LLM that reports no trustworthiness score.
CompletionEndNoScore(id, q) ==
    [id_ |-> id, type |-> "LLMCompletionEndEvent", query |-> q,
     has_score |-> FALSE, score |-> 0]

\* An event of any other type (a retrieval, an embedding, a completion start).
OtherEvent(id, q) ==
    [id_ |-> id, type |-> "BaseEvent", query |-> q, has_score |-> FALSE, score |-> 0]

\* A dataframe name that is not bound yet.
NoFrame == [bound |-> FALSE, rows |-> <<>>, spans_seen |-> 0]

NoResponse == [id_ |-> 0, type |-> "None", query |-> 0, has_score |-> FALSE, score |-> 0]

\* GetTrustworthinessScore.handle(self, event), on the handler's fields.  The
\* subscript of a missing key raises KeyError before anything is assigned.
handleMutKeepFirst(score, evs, event) ==
    IF event.type = "LLMCompletionEndEvent"
    THEN IF event.has_score
         THEN [trustworthiness_score |-> IF evs = <<>> THEN event.score ELSE score,
               events |-> Append(evs, event), raised |-> FALSE]
         ELSE [trustworthiness_score |-> score, events |-> evs, raised |-> TRUE]
    ELSE [trustworthiness_score |-> score, events |-> evs, raised |-> FALSE]

handleMutAppendAll(score, evs, event) ==
    IF event.type = "LLMCompletionEndEvent" /\ event.has_score
    THEN [trustworthiness_score |-> event.score,
          events |-> Append(evs, event), raised |-> FALSE]
    ELSE [trustworthiness_score |-> score, events |-> Append(evs, event),
          raised |-> FALSE]

\* handle as if the score were read with .get("trustworthiness_score", 0.0).
handleMutGetDefault(score, evs, event) ==
    IF event.type = "LLMCompletionEndEvent"
    THEN [trustworthiness_score |-> IF event.has_score THEN event.score ELSE 0,
          events |-> Append(evs, event), raised |-> FALSE]
    ELSE [trustworthiness_score |-> score, events |-> evs, raised |-> FALSE]

handle(score, evs, event) ==
    IF event.type = "LLMCompletionEndEvent"
    THEN IF event.has_score
         THEN [trustworthiness_score |-> event.score,
               events |-> Append(evs, event), raised |-> FALSE]
         ELSE [trustworthiness_score |-> score, events |-> evs, raised |-> TRUE]
    ELSE [trustworthiness_score |-> score, events |-> evs, raised |-> FALSE]

\* round(x, 2) of a score in thousandths, in hundredths: to the nearest, a tie
\* to the even neighbour.
Round2(x) ==
    LET q == x \div 10
        r == x % 10
    IN  IF r < 5 THEN q
        ELSE IF r > 5 THEN q + 1
        ELSE IF q % 2 = 0 THEN q ELSE q + 1

\* display_response(response): prints event_handler.trustworthiness_score as it
\* is when the function runs.
DisplayedScore(score) == Round2(score)

\* root_dispatcher.event(event): the registered handler handles the event.
Dispatch(event) ==
    LET h == handle(trustworthiness_score, events, event)
    IN  /\ Len(dispatched) < MaxEvents
        /\ dispatched' = Append(dispatched, event)
        /\ trustworthiness_score' = h.trustworthiness_score
        /\ events' = h.events

\* query_engine.query(...) is called for query q.
StartQuery(q) ==
    /\ qpc[q] = "idle"
    /\ qpc' = [qpc EXCEPT ![q] = "running"]
    /\ overlap' = (overlap \/ \E o \in Queries : qpc[o] = "running")
    /\ UNCHANGED <<trustworthiness_score, events, dispatched, response, printed>>
    /\ UNCHANGED <<fusion_vars, agent_vars, main_vars, index_vars,
                   handler_vars, obs_vars, sparse_vars>>

\* The pipeline of query q emits an event that is no LLMCompletionEndEvent.
EmitOther(q) ==
    /\ qpc[q] = "running"
    /\ Dispatch(OtherEvent(Len(dispatched) + 1, q))
    /\ UNCHANGED <<qpc, response, printed, overlap>>
    /\ UNCHANGED <<fusion_vars, agent_vars, main_vars, index_vars,
                   handler_vars, obs_vars, sparse_vars>>

\* The LLM call of query q completes; the response is built from it.
EmitCompletion(q) ==
    /\ qpc[q] = "running"
    /\ \E e \in {CompletionEnd(Len(dispatched) + 1, q, s) : s \in Scores}
             \cup {CompletionEndNoScore(Len(dispatched) + 1, q)} :
          /\ Dispatch(e)
          /\ response' = [response EXCEPT ![q] = e]
    /\ UNCHANGED <<qpc, printed, overlap>>
    /\ UNCHANGED <<fusion_vars, agent_vars, main_vars, index_vars,
                   handler_vars, obs_vars, sparse_vars>>

\* query_engine.query(...) returns the response of query q.
ReturnResponse(q) ==
    /\ qpc[q] = "running"
    /\ response[q] # NoResponse
    /\ qpc' = [qpc EXCEPT ![q] = "answered"]
    /\ UNCHANGED <<trustworthiness_score, events, dispatched, response, printed, overlap>>
    /\ UNCHANGED <<fusion_vars, agent_vars, main_vars, index_vars,
                   handler_vars, obs_vars, sparse_vars>>

\* display_response(response) for query q.
DisplayResponse(q) ==
    /\ qpc[q] = "answered"
    /\ printed' = [printed EXCEPT ![q] = DisplayedScore(trustworthiness_score)]
    /\ qpc' = [qpc EXCEPT ![q] = "displayed"]
    /\ UNCHANGED <<trustworthiness_score, events, dispatched, response, overlap>>
    /\ UNCHANGED <<fusion_vars, agent_vars, main_vars, index_vars,
                   handler_vars, obs_vars, sparse_vars>>

----------------------------------------------------------------------------
(* The handler cell of cleanlab_tlm_rag.ipynb when it is run again, and a   *)
(* second instance of the class made without running the cell again.       *)

\* A handler instance on the dispatcher: the class object it is an instance
\* of, its own trustworthiness_score, and how many events had been delivered
\* when it was registered.
Instance(class, since) ==
    [class |-> class, trustworthiness_score |-> 0, since |-> since, by_cell |-> TRUE]

\* The handler cell as if the class statement kept the class object, and with
\* it the events list, of its previous run.
handler_cellMutSameClass(regs, cls_events, now) ==
    [registered |-> Append(regs, Instance(Len(cls_events), now)),
     class_events |-> cls_events]

\* The handler cell: the class statement makes a new class object, whose
\* events attribute is a new empty list; event_handler is an instance of that
\* class and is added to the handlers of the root dispatcher, which keeps the
\* instances added before.
handler_cell(regs, cls_events, now) ==
    [registered |-> Append(regs, Instance(Len(cls_events) + 1, now)),
     class_events |-> Append(cls_events, <<>>)]

\* root_dispatcher.event(event) with the handlers regs[1..k] still to run:
\* each handles the event in the order of registration, on its own score and
\* the events list of its class.
RECURSIVE DispatchAll(_, _, _, _)
DispatchAll(regs, cls_events, event, k) ==
    IF k = 0 THEN [registered |-> regs, class_events |-> cls_events]
    ELSE LET before == DispatchAll(regs, cls_events, event, k - 1)
             h == handle(before.registered[k].trustworthiness_score,
                         before.class_events[before.registered[k].class], event)
         IN  [registered |->
                  [before.registered EXCEPT ![k].trustworthiness_score =
                                                h.trustworthiness_score],
              class_events |->
                  [before.class_events EXCEPT ![before.registered[k].class] = h.events]]

\* The handler cell is run again.
RunHandlerCell ==
    /\ Len(registered) < MaxHandlers
    /\ LET r == handler_cell(registered, class_events, Len(dispatched))
       IN  /\ registered' = r.registered
           /\ class_events' = r.class_events
    /\ UNCHANGED tlm_vars
    /\ UNCHANGED <<fusion_vars, agent_vars, main_vars, index_vars, obs_vars, sparse_vars>>

\* event_handler = GetTrustworthinessScore() and add_event_handler are run
\* again without the class statement: one more instance of the latest class.
RegisterInstance ==
    /\ Len(registered) < MaxHandlers
    /\ registered' = Append(registered,
                            [Instance(Len(class_events), Len(dispatched))
                                EXCEPT !.by_cell = FALSE])
    /\ UNCHANGED class_events
    /\ UNCHANGED tlm_vars
    /\ UNCHANGED <<fusion_vars, agent_vars, main_vars, index_vars, obs_vars, sparse_vars>>

\* The root dispatcher delivers an event to every registered handler.
DispatchEvent ==
    /\ Len(dispatched) < MaxEvents
    /\ \E e \in {CompletionEnd(Len(dispatched) + 1, 1, sc) : sc \in Scores}
             \cup {CompletionEndNoScore(Len(dispatched) + 1, 1),
                   OtherEvent(Len(dispatched) + 1, 1)} :
          LET r == DispatchAll(registered, class_events, e, Len(registered))
          IN  /\ dispatched' = Append(dispatched, e)
              /\ registered' = r.registered
              /\ class_events' = r.class_events
    /\ UNCHANGED <<trustworthiness_score, events, qpc, response, printed, overlap>>
    /\ UNCHANGED <<fusion_vars, agent_vars, main_vars, index_vars, obs_vars, sparse_vars>>

----------------------------------------------------------------------------
(* Observability.ipynb: the Phoenix session, the global handler, the index, *)
(* the queries, the export of the traces and the evaluations.               *)

\* The cells that change the modelled state, in the order of the notebook, as
\* if set_global_handler came after the query cells.
ObsCellsMutTracingLate ==
    <<"launch", "download", "load", "index", "engine", "loop", "print",
      "tracing", "export", "evals">>

\* The cells that change the modelled state, in the order of the notebook.
ObsCells ==
    <<"launch", "download", "load", "tracing", "index", "engine", "loop",
      "print", "export", "evals">>

\* The cell is the next one to run.
IsNext(cell) == opc <= Len(ObsCells) /\ ObsCells[opc] = cell

\* The cell has been run in this session.
Ran(cell) == \E p \in 1..(opc - 1) : p <= Len(ObsCells) /\ ObsCells[p] = cell

\* A cell runs when it is its turn; the cells after set_global_handler and
\* the download and load cells may also be run again later.
CanRun(cell) == IsNext(cell) \/ (Ran(cell) /\ cell \notin {"launch", "tracing"})

AfterCell(cell) == IF IsNext(cell) THEN opc + 1 ELSE opc

\* queries: the two questions of the loop cell.
queries == <<"What did Paul Graham do growing up?", "Why did Paul Graham start YC?">>

\* The numbers of nodes VectorStoreIndex.from_documents can make of the
\* essay: the 75,042 bytes of the file give more nodes than similarity_top_k.
EssayNodes == {SimilarityTopK + 1, SimilarityTopK + 3}

Min2(a, b) == IF a < b THEN a ELSE b

QuerySpan(call, retrieved) == [kind |-> "query", call |-> call, retrieved |-> retrieved]

EmbeddingSpan == [kind |-> "embedding", call |-> 0, retrieved |-> 0]

\* What an instrumented call adds to the spans Phoenix holds: the span, when
\* the session is up and the global handler is installed, nothing otherwise.
Traced(sess, handler, spns, span) ==
    IF sess /\ handler = "arize_phoenix" THEN Append(spns, span) ELSE spns

\* query_engine.query(query), the n-th call of the session: the engine
\* retrieves its similarity_top_k nodes, or all nodes of a smaller index.
Query(st, n) ==
    [spans |-> Traced(st.session, st.global_handler, st.spans,
                      QuerySpan(n, Min2(st.query_engine, st.obs_index))),
     query_calls |-> Append(st.query_calls, [call |-> n, handler |-> st.global_handler]),
     session |-> st.session, global_handler |-> st.global_handler,
     query_engine |-> st.query_engine, obs_index |-> st.obs_index]

\* for query in tqdm(queries): query_engine.query(query), the last k queries
\* of the list still to run.
RECURSIVE RunQueries(_, _)
RunQueries(st, k) ==
    IF k = 0 THEN st
    ELSE LET before == RunQueries(st, k - 1)
         IN  Query(before, Len(before.query_calls) + 1)

ObsState ==
    [spans |-> spans, query_calls |-> query_calls, session |-> session,
     global_handler |-> global_handler, query_engine |-> query_engine,
     obs_index |-> obs_index]

\* The spans of queries among the first n spans.
QuerySpans(spns, n) == SelectSeq(SubSeq(spns, 1, n), LAMBDA sp : sp.kind = "query")

\* The rows of one query span in the retrieved-documents dataframe: one per
\* retrieved document, by position.
DocumentRows(span) == [i \in 1..span.retrieved |-> [call |-> span.call, position |-> i]]

RECURSIVE Flatten(_)
Flatten(seqs) == IF seqs = <<>> THEN <<>> ELSE Head(seqs) \o Flatten(Tail(seqs))

\* get_retrieved_documents as if it kept the first document of every query.
get_retrieved_documentsMutFirstOnly(spns) ==
    [bound |-> TRUE,
     rows |-> [i \in 1..Len(QuerySpans(spns, Len(spns))) |->
                  [call |-> QuerySpans(spns, Len(spns))[i].call, position |-> 1]] \o <<>>,
     spans_seen |-> Len(spns)]

\* get_qa_with_reference(px.Client()): one row per query span.
get_qa_with_reference(spns) ==
    [bound |-> TRUE,
     rows |-> [i \in 1..Len(QuerySpans(spns, Len(spns))) |->
                  [call |-> QuerySpans(spns, Len(spns))[i].call, position |-> 0]] \o <<>>,
     spans_seen |-> Len(spns)]

\* get_retrieved_documents(px.Client()): one row per retrieved document of
\* every query span.
get_retrieved_documents(spns) ==
    [bound |-> TRUE,
     rows |-> Flatten([i \in 1..Len(QuerySpans(spns, Len(spns))) |->
                          DocumentRows(QuerySpans(spns, Len(spns))[i])] \o <<>>),
     spans_seen |-> Len(spns)]

\* run_evals(dataframe=, evaluators=, provide_explanation=True): every
\* evaluator evaluates every row; the result is one dataframe per evaluator,
\* each with one row per row of the input.
run_evals(name, dataframe, evaluators) ==
    [dataframe |-> name,
     input_rows |-> Len(dataframe.rows),
     evaluators |-> evaluators,
     evaluations |-> Len(dataframe.rows) * Len(evaluators),
     results |-> [i \in 1..Len(evaluators) |->
                     [evaluator |-> evaluators[i], rows |-> Len(dataframe.rows)]] \o <<>>]

\* session = px.launch_app()
LaunchCell ==
    /\ CanRun("launch")
    /\ session' = TRUE
    /\ opc' = AfterCell("launch")
    /\ UNCHANGED <<essay_file, query_calls, global_handler, spans, documents, obs_index,
                   query_engine, queries_df, retrieved_documents_df, eval_runs>>
    /\ UNCHANGED <<fusion_vars, tlm_vars, agent_vars, main_vars, index_vars,
                   handler_vars, sparse_vars>>

\* !wget ... "paul_graham_essay.txt": the file is saved, or the download
\* fails and the directory stays as it was; the shell command raises nothing.
ObsDownloadCell ==
    /\ CanRun("download")
    /\ essay_file' \in {essay_file, TRUE}
    /\ opc' = AfterCell("download")
    /\ UNCHANGED <<query_calls, session, global_handler, spans, documents, obs_index,
                   query_engine, queries_df, retrieved_documents_df, eval_runs>>
    /\ UNCHANGED <<fusion_vars, tlm_vars, agent_vars, main_vars, index_vars,
                   handler_vars, sparse_vars>>

\* documents = SimpleDirectoryReader(input_files=[...]).load_data(): raises
\* when the file is not there.
LoadDataCell ==
    /\ CanRun("load")
    /\ documents' = IF essay_file THEN "loaded" ELSE documents
    /\ opc' = AfterCell("load")
    /\ UNCHANGED <<essay_file, query_calls, session, global_handler, spans, obs_index,
                   query_engine, queries_df, retrieved_documents_df, eval_runs>>
    /\ UNCHANGED <<fusion_vars, tlm_vars, agent_vars, main_vars, index_vars,
                   handler_vars, sparse_vars>>

\* set_global_handler("arize_phoenix")
TracingCell ==
    /\ CanRun("tracing")
    /\ global_handler' = "arize_phoenix"
    /\ opc' = AfterCell("tracing")
    /\ UNCHANGED <<essay_file, query_calls, session, spans, documents, obs_index,
                   query_engine, queries_df, retrieved_documents_df, eval_runs>>
    /\ UNCHANGED <<fusion_vars, tlm_vars, agent_vars, main_vars, index_vars,
                   handler_vars, sparse_vars>>

\* index = VectorStoreIndex.from_documents(documents): NameError while
\* documents is unbound; the embedding calls may raise; they are traced when
\* the handler is installed.
IndexCell ==
    /\ CanRun("index")
    /\ \/ /\ documents = "loaded"
          /\ Len(SelectSeq(spans, LAMBDA sp : sp.kind = "embedding")) < MaxIndexBuilds
          /\ \E n \in EssayNodes :
                /\ obs_index' = n
                /\ spans' = Traced(session, global_handler, spans, EmbeddingSpan)
       \/ /\ UNCHANGED <<obs_index, spans>>
    /\ opc' = AfterCell("index")
    /\ UNCHANGED <<essay_file, query_calls, session, global_handler, documents,
                   query_engine, queries_df, retrieved_documents_df, eval_runs>>
    /\ UNCHANGED <<fusion_vars, tlm_vars, agent_vars, main_vars, index_vars,
                   handler_vars, sparse_vars>>

\* query_engine = index.as_query_engine(similarity_top_k=5): NameError while
\* index is unbound.
ObsEngineCell ==
    /\ CanRun("engine")
    /\ query_engine' = IF obs_index # 0 THEN SimilarityTopK ELSE query_engine
    /\ opc' = AfterCell("engine")
    /\ UNCHANGED <<essay_file, query_calls, session, global_handler, spans, documents,
                   obs_index, queries_df, retrieved_documents_df, eval_runs>>
    /\ UNCHANGED <<fusion_vars, tlm_vars, agent_vars, main_vars, index_vars,
                   handler_vars, sparse_vars>>

\* for query in tqdm(queries): query_engine.query(query). NameError, and no
\* call, while query_engine is unbound.
LoopCell ==
    /\ CanRun("loop")
    /\ Len(query_calls) + Len(queries) <= MaxQueryCalls
    /\ LET r == IF query_engine # 0 THEN RunQueries(ObsState, Len(queries)) ELSE ObsState
       IN  /\ spans' = r.spans
           /\ query_calls' = r.query_calls
    /\ opc' = AfterCell("loop")
    /\ UNCHANGED <<essay_file, session, global_handler, documents, obs_index,
                   query_engine, queries_df, retrieved_documents_df, eval_runs>>
    /\ UNCHANGED <<fusion_vars, tlm_vars, agent_vars, main_vars, index_vars,
                   handler_vars, sparse_vars>>

\* print(query_engine.query("Who is Paul Graham?"))
PrintQueryCell ==
    /\ CanRun("print")
    /\ Len(query_calls) + 1 <= MaxQueryCalls
    /\ LET r == IF query_engine # 0 THEN RunQueries(ObsState, 1) ELSE ObsState
       IN  /\ spans' = r.spans
           /\ query_calls' = r.query_calls
    /\ opc' = AfterCell("print")
    /\ UNCHANGED <<essay_file, session, global_handler, documents, obs_index,
                   query_engine, queries_df, retrieved_documents_df, eval_runs>>
    /\ UNCHANGED <<fusion_vars, tlm_vars, agent_vars, main_vars, index_vars,
                   handler_vars, sparse_vars>>

\* queries_df = get_qa_with_reference(px.Client())
\* retrieved_documents_df = get_retrieved_documents(px.Client())
ExportCell ==
    /\ CanRun("export")
    /\ queries_df' = get_qa_with_reference(spans)
    /\ retrieved_documents_df' = get_retrieved_documents(spans)
    /\ opc' = AfterCell("export")
    /\ UNCHANGED <<essay_file, query_calls, session, global_handler, spans, documents,
                   obs_index, query_engine, eval_runs>>
    /\ UNCHANGED <<fusion_vars, tlm_vars, agent_vars, main_vars, index_vars,
                   handler_vars, sparse_vars>>

\* The evaluation cell: run_evals over queries_df with the hallucination and
\* the QA evaluator, then over retrieved_documents_df with the relevance
\* evaluator.
EvalsCell ==
    /\ CanRun("evals")
    /\ eval_runs' =
          IF queries_df.bound /\ retrieved_documents_df.bound
          THEN <<run_evals("queries_df", queries_df,
                           <<"hallucination_evaluator", "qa_correctness_evaluator">>),
                 run_evals("retrieved_documents_df", retrieved_documents_df,
                           <<"relevance_evaluator">>)>>
          ELSE eval_runs
    /\ opc' = AfterCell("evals")
    /\ UNCHANGED <<essay_file, query_calls, session, global_handler, spans, documents,
                   obs_index, query_engine, queries_df, retrieved_documents_df>>
    /\ UNCHANGED <<fusion_vars, tlm_vars, agent_vars, main_vars, index_vars,
                   handler_vars, sparse_vars>>

----------------------------------------------------------------------------
(* sparse_doc_vectors and sparse_query_vectors of qdrant_hybrid.ipynb.      *)

\* The positions of the vocabulary, as the model's logits are indexed here;
\* Python counts them from 0.
Vocab == <<1, 2>>

\* The logits the masked language model gives a token for a vocabulary
\* position.
LogitValues == {-1, 1, 2}

\* torch.log(1 + torch.relu(x)) in thousandths: 0 for x <= 0, ln 2 for 1,
\* ln 3 for 2.
relu_log(x) == IF x <= 0 THEN 0 ELSE IF x = 1 THEN 693 ELSE 1099

TokenLogits == [1..Len(Vocab) -> LogitValues]

\* The logits of the second token: below zero or above those of the first.
SecondTokenLogits == [1..Len(Vocab) -> {-1, 2}]

\* What the tokenizer and the model give for one text of the batch, padded to
\* two tokens: the logits of both tokens and the attention mask. A padded
\* token has mask 0 and logits of its own.
TextInputs ==
    {[logits |-> <<a, b>> , attention_mask |-> <<1, 1>>] :
          a \in TokenLogits, b \in SecondTokenLogits}
      \cup {[logits |-> <<a, [v \in 1..Len(Vocab) |-> 2]>>, attention_mask |-> <<1, 0>>] :
                a \in TokenLogits}

\* The batches of at most MaxTexts texts.
Batches == UNION {[1..n -> TextInputs] : n \in 1..MaxTexts}

\* weighted_log = relu_log * attention_mask.unsqueeze(-1), for one text.
weighted_log(text) ==
    [t \in 1..Len(text.logits) |->
        [v \in 1..Len(Vocab) |-> relu_log(text.logits[t][v]) * text.attention_mask[t]]]

RECURSIVE MaxOver(_, _, _)
MaxOver(w, v, t) ==
    IF t = 1 THEN w[1][v]
    ELSE IF w[t][v] > MaxOver(w, v, t - 1) THEN w[t][v] ELSE MaxOver(w, v, t - 1)

\* tvecs, _ = torch.max(weighted_log, dim=1): per text and vocabulary position
\* the largest weight over the tokens.
MaxPool(batch) ==
    [i \in 1..Len(batch) |->
        [v \in 1..Len(Vocab) |->
            MaxOver(weighted_log(batch[i]), v, Len(batch[i].logits))] \o <<>>] \o <<>>

\* batch.nonzero as if it listed every position.
nonzeroMutAll(batch) == [p \in 1..Len(batch) |-> p - 1] \o <<>>

\* batch.nonzero(as_tuple=True)[0].tolist(): the positions, counted from 0 and
\* in increasing order, whose weight is not zero.
RECURSIVE nonzero(_)
nonzero(batch) ==
    IF batch = <<>> THEN <<>>
    ELSE LET front == nonzero(SubSeq(batch, 1, Len(batch) - 1))
         IN  IF batch[Len(batch)] # 0 THEN Append(front, Len(batch) - 1) ELSE front

\* The loop over tvecs: indices.append(batch.nonzero(...)) and
\* vecs.append(batch[indices[-1]].tolist()); return indices, vecs.
IndicesAndVecs(tv) ==
    [indices |-> [i \in 1..Len(tv) |-> nonzero(tv[i])] \o <<>>,
     vecs |-> [i \in 1..Len(tv) |->
                  [j \in 1..Len(nonzero(tv[i])) |-> tv[i][nonzero(tv[i])[j] + 1]] \o <<>>] \o <<>>]

\* sparse_doc_vectors(texts), on what doc_tokenizer and doc_model give.
sparse_doc_vectors(batch) == IndicesAndVecs(MaxPool(batch))

\* sparse_query_vectors(texts), on what query_tokenizer and query_model give.
sparse_query_vectors(batch) == IndicesAndVecs(MaxPool(batch))

CallSparseDocVectors ==
    /\ spc = "idle"
    /\ \E batch \in Batches :
          /\ tvecs' = MaxPool(batch)
          /\ sparse_out' = sparse_doc_vectors(batch)
    /\ spc' = "doc"
    /\ UNCHANGED <<fusion_vars, tlm_vars, agent_vars, main_vars, index_vars,
                   handler_vars, obs_vars>>

CallSparseQueryVectors ==
    /\ spc = "idle"
    /\ \E batch \in Batches :
          /\ tvecs' = MaxPool(batch)
          /\ sparse_out' = sparse_query_vectors(batch)
    /\ spc' = "query"
    /\ UNCHANGED <<fusion_vars, tlm_vars, agent_vars, main_vars, index_vars,
                   handler_vars, obs_vars>>

\* The caller has taken the result; the next call starts anew.
SparseDone ==
    /\ spc # "idle"
    /\ spc' = "idle"
    /\ tvecs' = <<>>
    /\ sparse_out' = [indices |-> <<>>, vecs |-> <<>>]
    /\ UNCHANGED <<fusion_vars, tlm_vars, agent_vars, main_vars, index_vars,
                   handler_vars, obs_vars>>

----------------------------------------------------------------------------
(* The context-augmented agent: get_agent_with_context_awareness and the   *)
(* cells that call it and run the agent.                                    *)

\* texts: the documents of the toy context index.
Texts == {"Abbreviation: 'Y' = Revenue",
          "Abbreviation: 'X' = Risk Factors",
          "Abbreviation: 'Z' = Costs"}

\* context_index.as_retriever(similarity_top_k=2)
ContextTopK == 2

\* What context_retriever.aretrieve(query) may return: at most
\* similarity_top_k nodes, each document at most once.
Retrievals ==
    UNION { {t \in [1..n -> Texts] : \A i, j \in 1..n : i # j => t[i] # t[j]}
            : n \in 0..ContextTopK }

\* The tools arguments of the notebook: query_engine_tools and [magic_tool].
QueryEngineTools == <<"uber_march_10q", "uber_june_10q", "uber_sept_10q">>

MagicTools == <<"magic_formula">>

ToolsArgs == {QueryEngineTools, MagicTools}

JoinMutNoSeparator(texts) == texts

\* "\n----\n".join(texts), as the sequence of its pieces
Join(texts) ==
    IF texts = <<>> THEN <<>>
    ELSE <<texts[1]>> \o List([i \in 1..(2 * (Len(texts) - 1)) |->
                                  IF i % 2 = 1 THEN "\n----\n" ELSE texts[(i \div 2) + 1]])

\* system_prompt_template.format(context=context_text)
FormatSystemPrompt(context_text) ==
    <<"You are a helpful assistant. \nHere is some context that you can use to answer the user's question and for help with picking the right tool:\n\n">>
    \o context_text \o <<"\n">>

NoAgent == [id |-> 0, tools |-> <<>>, system_prompt |-> <<>>]

\* FunctionAgent(tools=tools, llm=OpenAI(model="gpt-4o"), system_prompt=...)
FunctionAgent(id, tools, nodes) ==
    [id |-> id, tools |-> tools, system_prompt |-> FormatSystemPrompt(Join(nodes))]

\* await context_retriever.aretrieve(query): the statements after it run once
\* the retrieval has returned.
RetrievalAwaitedMutNoAwait(pc) == pc \in {"retrieving", "retrieved"}

RetrievalAwaited(pc) == pc = "retrieved"

\* agent.run(query) and agent.run(query, ctx=ctx): the chat history the run
\* starts from.  Without a ctx the run gets a Context of its own, which is
\* empty; with a ctx it continues the memory that ctx holds.  c is the index of
\* the ctx given, 0 for none.
RunHistoryMutSharedMemory(c, ctxs) ==
    IF ctxs = <<>> THEN <<>> ELSE ctxs[1].memory

RunHistory(c, ctxs) == IF c = 0 THEN <<>> ELSE ctxs[c].memory

\* The Context objects once run r, given ctx c, has put its messages into its
\* memory.
ContextsAfterRun(c, ctxs, r) ==
    IF c = 0 THEN ctxs
    ELSE [ctxs EXCEPT ![c] = [@ EXCEPT !.memory = Append(@, r)]]

ToolCallsOf(st) == Len(SelectSeq(st, LAMBDA x : x = "tool_call"))

\* A cell calls get_agent_with_context_awareness(query, context_retriever,
\* tools): the retrieval is issued.
CallGetAgent ==
    /\ apc = "idle"
    /\ calls < MaxCalls
    /\ calls' = calls + 1
    /\ \E t \in ToolsArgs : tools_arg' = t
    /\ steps' = <<"aretrieve">>
    /\ context_nodes' = <<>>
    /\ apc' = "retrieving"
    /\ UNCHANGED <<agent, n_agents, ctx, contexts, runs>>
    /\ UNCHANGED <<fusion_vars, tlm_vars, main_vars, index_vars,
                   handler_vars, obs_vars, sparse_vars>>

\* The retrieval returns its nodes.
RetrieveReturns ==
    /\ apc = "retrieving"
    /\ \E nodes \in Retrievals : context_nodes' = nodes
    /\ steps' = Append(steps, "aretrieve_done")
    /\ apc' = "retrieved"
    /\ UNCHANGED <<calls, tools_arg, agent, n_agents, ctx, contexts, runs>>
    /\ UNCHANGED <<fusion_vars, tlm_vars, main_vars, index_vars,
                   handler_vars, obs_vars, sparse_vars>>

\* The retrieval raises: the exception leaves the function and the cell, no
\* agent is built and the cell's agent.run is not reached.
RetrieveRaises ==
    /\ apc = "retrieving"
    /\ steps' = Append(steps, "raised")
    /\ apc' = "idle"
    /\ UNCHANGED <<calls, tools_arg, context_nodes, agent, n_agents, ctx, contexts, runs>>
    /\ UNCHANGED <<fusion_vars, tlm_vars, main_vars, index_vars,
                   handler_vars, obs_vars, sparse_vars>>

\* return FunctionAgent(...), bound to the name agent by the cell.
BuildAgent ==
    /\ RetrievalAwaited(apc)
    /\ n_agents' = n_agents + 1
    /\ agent' = FunctionAgent(n_agents + 1, tools_arg, context_nodes)
    /\ steps' = Append(steps, "FunctionAgent")
    /\ apc' = "built"
    /\ UNCHANGED <<calls, tools_arg, context_nodes, ctx, contexts, runs>>
    /\ UNCHANGED <<fusion_vars, tlm_vars, main_vars, index_vars,
                   handler_vars, obs_vars, sparse_vars>>

\* response = await agent.run(query) or agent.run(query, ctx=ctx).
StartRun ==
    /\ apc = "built"
    /\ \E c \in {0, ctx} :
          runs' = Append(runs, [ctx |-> c, agent |-> agent.id,
                                history |-> RunHistory(c, contexts)])
    /\ steps' = Append(steps, "run")
    /\ apc' = "running"
    /\ UNCHANGED <<calls, tools_arg, context_nodes, agent, n_agents, ctx, contexts>>
    /\ UNCHANGED <<fusion_vars, tlm_vars, main_vars, index_vars,
                   handler_vars, obs_vars, sparse_vars>>

\* The running agent calls one of its tools.
ToolCall ==
    /\ apc = "running"
    /\ agent.tools # <<>>
    /\ ToolCallsOf(steps) < MaxToolCalls
    /\ steps' = Append(steps, "tool_call")
    /\ UNCHANGED <<apc, calls, tools_arg, context_nodes, agent, n_agents, ctx, contexts, runs>>
    /\ UNCHANGED <<fusion_vars, tlm_vars, main_vars, index_vars,
                   handler_vars, obs_vars, sparse_vars>>

\* The run returns its response.
FinishRun ==
    /\ apc = "running"
    /\ contexts' = ContextsAfterRun(runs[Len(runs)].ctx, contexts, Len(runs))
    /\ steps' = Append(steps, "response")
    /\ apc' = "idle"
    /\ UNCHANGED <<calls, tools_arg, context_nodes, agent, n_agents, ctx, runs>>
    /\ UNCHANGED <<fusion_vars, tlm_vars, main_vars, index_vars,
                   handler_vars, obs_vars, sparse_vars>>

\* ctx = Context(agent)
MakeContext ==
    /\ apc = "idle"
    /\ agent # NoAgent
    /\ Len(contexts) < MaxContexts
    /\ contexts' = Append(contexts, [made_from |-> agent.id, memory |-> <<>>])
    /\ ctx' = Len(contexts) + 1
    /\ UNCHANGED <<apc, calls, tools_arg, steps, context_nodes, agent, n_agents, runs>>
    /\ UNCHANGED <<fusion_vars, tlm_vars, main_vars, index_vars,
                   handler_vars, obs_vars, sparse_vars>>


----------------------------------------------------------------------------
(* main() of deepinfra.ipynb, run by asyncio.run(main()). *)

\* What main() does once the awaited embedding call has raised, with a retry
\* of the call.
AfterEmbeddingRaisesMutRetry(log) ==
    [mpc |-> "awaiting", log |-> log \o <<"raised", "aget_text_embedding">>]

\* What main() does once the awaited embedding call has raised: nothing, the
\* exception leaves main() and asyncio.run().
AfterEmbeddingRaises(log) == [mpc |-> "idle", log |-> Append(log, "raised")]

\* asyncio.run(main()): text = "hello world" and the embedding call is issued.
CallMain ==
    /\ mpc = "idle"
    /\ main_log' = <<"aget_text_embedding">>
    /\ mpc' = "awaiting"
    /\ UNCHANGED <<fusion_vars, tlm_vars, agent_vars, index_vars,
                   handler_vars, obs_vars, sparse_vars>>

\* The embedding call returns and main() prints the response.
EmbeddingReturns ==
    /\ mpc = "awaiting"
    /\ main_log' = main_log \o <<"returned", "print">>
    /\ mpc' = "idle"
    /\ UNCHANGED <<fusion_vars, tlm_vars, agent_vars, index_vars,
                   handler_vars, obs_vars, sparse_vars>>

\* The embedding call raises.
EmbeddingRaises ==
    /\ mpc = "awaiting"
    /\ LET r == AfterEmbeddingRaises(main_log)
       IN  /\ main_log' = r.log
           /\ mpc' = r.mpc
    /\ UNCHANGED <<fusion_vars, tlm_vars, agent_vars, index_vars,
                   handler_vars, obs_vars, sparse_vars>>

----------------------------------------------------------------------------
(* The index cells of the context-augmented agent notebook: the load cell, *)
(* the download cell, the build cell, the query engine cell and the tools  *)
(* cell.  The cells of a kernel session run in the order of the notebook;  *)
(* a cell that raises is left at the raising statement and the next cell   *)
(* may still be run.                                                       *)

\* march, june and sept, in the order the cells name them.
IndexNames == <<"march", "june", "sept">>

Names == {IndexNames[i] : i \in DOMAIN IndexNames}

Pos == [march |-> 1, june |-> 2, sept |-> 3]

\* A path as the sequence of its components; "." components name no
\* directory, so "./data/10q/x" and "data/10q/x" are the same file.
NormPath(p) == SelectSeq(p, LAMBDA c : c # ".")

\* StorageContext.from_defaults(persist_dir=...) of the load cell
LoadDir ==
    [march |-> <<".", "storage", "march">>,
     june  |-> <<".", "storage", "june">>,
     sept  |-> <<".", "storage", "sept">>]

\* ..._index.storage_context.persist(persist_dir=...) of the build cell
PersistDirMutSwapped ==
    [march |-> <<".", "storage", "june">>,
     june  |-> <<".", "storage", "march">>,
     sept  |-> <<".", "storage", "sept">>]

PersistDir ==
    [march |-> <<".", "storage", "march">>,
     june  |-> <<".", "storage", "june">>,
     sept  |-> <<".", "storage", "sept">>]

\* wget ... -O 'data/10q/...' of the download cell
DownloadFile ==
    [march |-> <<"data", "10q", "uber_10q_march_2022.pdf">>,
     june  |-> <<"data", "10q", "uber_10q_june_2022.pdf">>,
     sept  |-> <<"data", "10q", "uber_10q_sept_2022.pdf">>]

\* SimpleDirectoryReader(input_files=[...]) of the build cell
InputFile ==
    [march |-> <<".", "data", "10q", "uber_10q_march_2022.pdf">>,
     june  |-> <<".", "data", "10q", "uber_10q_june_2022.pdf">>,
     sept  |-> <<".", "data", "10q", "uber_10q_sept_2022.pdf">>]

Dirs == {NormPath(LoadDir[n]) : n \in Names} \cup {NormPath(PersistDir[n]) : n \in Names}

Files == {NormPath(DownloadFile[n]) : n \in Names} \cup {NormPath(InputFile[n]) : n \in Names}

\* What a directory under ./storage holds: nothing, a persist that did not
\* complete, or the complete index built from the named file.
Absent == [state |-> "absent", docs |-> <<>>]

Partial == [state |-> "partial", docs |-> <<>>]

Persisted(file) == [state |-> "complete", docs |-> file]

\* load_index_from_storage returns an index for a complete directory and
\* raises for any other.
Loadable(content) == content.state = "complete"

\* What earlier sessions of the notebook can have left in directory d.
StorageStates(d) ==
    {Absent, Partial}
    \cup {Persisted(NormPath(InputFile[n])) :
             n \in {m \in Names : NormPath(PersistDir[m]) = d}}

NoIndex == [origin |-> "unbound", docs |-> <<>>]

NoDocs == <<>>

\* One SDK call of a cell and how it ended: "ok", "raised" (the exception left
\* the cell) or "caught" (the exception was caught inside the cell).
Call(cell, call, name, outcome) ==
    [cell |-> cell, call |-> call, name |-> name, outcome |-> outcome]

\* The first position of IndexNames whose name ok maps to FALSE, 0 when there
\* is none.
FirstFailing(ok) ==
    IF \A i \in DOMAIN IndexNames : ok[IndexNames[i]] THEN 0
    ELSE CHOOSE i \in DOMAIN IndexNames :
            /\ ~ok[IndexNames[i]]
            /\ \A j \in 1..(i - 1) : ok[IndexNames[j]]

\* The body of the try block of the load cell: the three loads in order, up
\* to the first that raises.  failed is the position of that load, 0 when all
\* three returned.
TryLoads(idx, st) ==
    LET CanLoad == [n \in Names |-> Loadable(st[NormPath(LoadDir[n])])]
        f == FirstFailing(CanLoad)
    IN  [failed |-> f,
         indexes |-> [n \in Names |->
                         IF f = 0 \/ Pos[n] < f
                         THEN [origin |-> "loaded", docs |-> st[NormPath(LoadDir[n])].docs]
                         ELSE idx[n]]]

LoadCalls(f, outcome) ==
    List([i \in 1..(IF f = 0 THEN 3 ELSE f) |->
             Call("load", "load_index_from_storage", IndexNames[i],
                  IF f = 0 \/ i < f THEN "ok" ELSE outcome)])

\* The load cell without its try/except: the exception of a load leaves the
\* cell and index_loaded is not assigned.
load_cellMutNoExcept(idx, st) ==
    LET t == TryLoads(idx, st)
    IN  [indexes |-> t.indexes,
         index_loaded |-> IF t.failed = 0 THEN "True" ELSE "unbound",
         calls |-> LoadCalls(t.failed, "raised")]

\* The load cell with index_loaded = True moved up behind the first load.
load_cellMutTrueAfterFirst(idx, st) ==
    LET t == TryLoads(idx, st)
    IN  [indexes |-> t.indexes,
         index_loaded |-> IF t.failed # 1 THEN "True" ELSE "False",
         calls |-> LoadCalls(t.failed, "caught")]

\* The load cell: index_loaded = True is the last statement of the try block,
\* reached only after the third load; the bare except catches whatever a load
\* raised and sets index_loaded = False.
load_cell(idx, st) ==
    LET t == TryLoads(idx, st)
    IN  [indexes |-> t.indexes,
         index_loaded |-> IF t.failed = 0 THEN "True" ELSE "False",
         calls |-> LoadCalls(t.failed, "caught")]

\* The SDK calls of the build cell, in order: three load_data, three
\* from_documents, three persist.
BuildCalls ==
    <<"load_data", "load_data", "load_data",
      "from_documents", "from_documents", "from_documents",
      "persist", "persist", "persist">>

BuildName(k) == IndexNames[((k - 1) % 3) + 1]

\* The build cell.  fault is the position of the SDK call that raises for a
\* reason of its own (0: none); a load_data of a file that is not there or is
\* empty raises as well.  The first call that raises ends the cell.  torn
\* says whether a persist that raised left a partial directory behind.
build_cell(loaded, dcs, idx, st, dt, fault, torn) ==
    IF loaded = "unbound"
    THEN [docs |-> dcs, indexes |-> idx, storage |-> st,
          calls |-> <<Call("build", "index_loaded", "none", "raised")>>]
    ELSE IF loaded = "True"
    THEN [docs |-> dcs, indexes |-> idx, storage |-> st, calls |-> <<>>]
    ELSE
    LET Readable == [n \in Names |-> dt[NormPath(InputFile[n])] = "ok"]
        unreadable == FirstFailing(Readable)
        s == IF unreadable # 0 /\ (fault = 0 \/ unreadable < fault)
             THEN unreadable ELSE fault
        done(k) == s = 0 \/ k < s
        new_docs == [n \in Names |->
                        IF done(Pos[n]) THEN NormPath(InputFile[n]) ELSE dcs[n]]
        new_idx == [n \in Names |->
                       IF done(3 + Pos[n])
                       THEN [origin |-> "built", docs |-> new_docs[n]]
                       ELSE idx[n]]
        Writer(d) == {n \in Names : NormPath(PersistDir[n]) = d}
        new_st == [d \in Dirs |->
                      IF \E n \in Writer(d) : done(6 + Pos[n])
                      THEN Persisted(new_idx[CHOOSE n \in Writer(d) : done(6 + Pos[n])].docs)
                      ELSE IF torn /\ \E n \in Writer(d) : s = 6 + Pos[n]
                      THEN Partial
                      ELSE st[d]]
    IN  [docs |-> new_docs, indexes |-> new_idx, storage |-> new_st,
         calls |-> List([k \in 1..(IF s = 0 THEN 9 ELSE s) |->
                           Call("build", BuildCalls[k], BuildName(k),
                                IF done(k) THEN "ok" ELSE "raised")])]

NoEngine == [index |-> NoIndex, similarity_top_k |-> 0]

\* march_index.as_query_engine(similarity_top_k=3) and the same for june and
\* sept
EngineTopK == 3

\* The query engine cell as if an unbound name gave an engine without index.
engine_cellMutUnboundAllowed(idx, eng) ==
    [engines |-> [n \in Names |-> [index |-> idx[n], similarity_top_k |-> EngineTopK]],
     calls |-> List([i \in 1..3 |->
                       Call("engines", "as_query_engine", IndexNames[i], "ok")])]

\* The query engine cell: the three as_query_engine calls in order; a name
\* that is not bound raises NameError and ends the cell.
engine_cell(idx, eng) ==
    LET Bound == [n \in Names |-> idx[n] # NoIndex]
        f == FirstFailing(Bound)
        done(i) == f = 0 \/ i < f
    IN  [engines |-> [n \in Names |->
                         IF done(Pos[n])
                         THEN [index |-> idx[n], similarity_top_k |-> EngineTopK]
                         ELSE eng[n]],
         calls |-> List([i \in 1..(IF f = 0 THEN 3 ELSE f) |->
                           Call("engines", "as_query_engine", IndexNames[i],
                                IF done(i) THEN "ok" ELSE "raised")])]

\* The tools cell: the list display of three QueryEngineTool.from_defaults
\* calls; the list is bound only when all three were made.
tools_cell(eng, tools) ==
    LET Bound == [n \in Names |-> eng[n] # NoEngine]
        f == FirstFailing(Bound)
        done(i) == f = 0 \/ i < f
    IN  [query_engine_tools |-> IF f = 0 THEN IndexNames ELSE tools,
         calls |-> List([i \in 1..(IF f = 0 THEN 3 ELSE f) |->
                           Call("tools", "QueryEngineTool.from_defaults", IndexNames[i],
                                IF done(i) THEN "ok" ELSE "raised")])]

\* What the build cell of a kernel session did, as the next session sees it.
RunSummary(tr) ==
    [built |-> \A n \in Names :
                  \E i \in DOMAIN tr : tr[i] = Call("build", "from_documents", n, "ok"),
     persisted |-> \A n \in Names :
                  \E i \in DOMAIN tr : tr[i] = Call("build", "persist", n, "ok")]

IndexQueries(tr) == Len(SelectSeq(tr, LAMBDA c : c.call = "query"))

\* The load cell runs.
LoadCell ==
    /\ ipc = "load"
    /\ LET r == load_cell(indexes, storage)
       IN  /\ indexes' = r.indexes
           /\ index_loaded' = r.index_loaded
           /\ itrace' = itrace \o r.calls
    /\ ipc' = "download"
    /\ UNCHANGED <<storage, data, docs, engines, query_engine_tools, krun, last_run>>
    /\ UNCHANGED <<fusion_vars, tlm_vars, agent_vars, main_vars,
                   handler_vars, obs_vars, sparse_vars>>

\* The download cell runs: mkdir -p and three wget -O.  A shell command that
\* fails raises nothing; wget -O leaves an empty file when the download fails.
DownloadCell ==
    /\ ipc = "download"
    /\ \E got \in [Names -> {"ok", "empty"}] :
          data' = [f \in Files |->
                      IF \E n \in Names : NormPath(DownloadFile[n]) = f
                      THEN got[CHOOSE n \in Names : NormPath(DownloadFile[n]) = f]
                      ELSE data[f]]
    /\ ipc' = "build"
    /\ UNCHANGED <<storage, index_loaded, docs, indexes, engines,
                   query_engine_tools, itrace, krun, last_run>>
    /\ UNCHANGED <<fusion_vars, tlm_vars, agent_vars, main_vars,
                   handler_vars, obs_vars, sparse_vars>>

\* The build cell runs.
BuildCell ==
    /\ ipc = "build"
    /\ \E fault \in 0..Len(BuildCalls), torn \in BOOLEAN :
          LET r == build_cell(index_loaded, docs, indexes, storage, data, fault, torn)
          IN  /\ docs' = r.docs
              /\ indexes' = r.indexes
              /\ storage' = r.storage
              /\ itrace' = itrace \o r.calls
    /\ ipc' = "engines"
    /\ UNCHANGED <<data, index_loaded, engines, query_engine_tools, krun, last_run>>
    /\ UNCHANGED <<fusion_vars, tlm_vars, agent_vars, main_vars,
                   handler_vars, obs_vars, sparse_vars>>

\* The query engine cell runs.
EngineCell ==
    /\ ipc = "engines"
    /\ LET r == engine_cell(indexes, engines)
       IN  /\ engines' = r.engines
           /\ itrace' = itrace \o r.calls
    /\ ipc' = "tools"
    /\ UNCHANGED <<storage, data, index_loaded, docs, indexes,
                   query_engine_tools, krun, last_run>>
    /\ UNCHANGED <<fusion_vars, tlm_vars, agent_vars, main_vars,
                   handler_vars, obs_vars, sparse_vars>>

\* The tools cell runs.
ToolsCell ==
    /\ ipc = "tools"
    /\ LET r == tools_cell(engines, query_engine_tools)
       IN  /\ query_engine_tools' = r.query_engine_tools
           /\ itrace' = itrace \o r.calls
    /\ ipc' = "query"
    /\ UNCHANGED <<storage, data, index_loaded, docs, indexes, engines, krun, last_run>>
    /\ UNCHANGED <<fusion_vars, tlm_vars, agent_vars, main_vars,
                   handler_vars, obs_vars, sparse_vars>>

\* An agent that was given query_engine_tools calls one of the tools: the
\* query goes to the query engine the tool was made from.
IssueQuery ==
    /\ ipc = "query"
    /\ query_engine_tools # <<>>
    /\ IndexQueries(itrace) < MaxIndexQueries
    /\ \E i \in DOMAIN query_engine_tools :
          itrace' = Append(itrace, Call("query", "query", query_engine_tools[i], "ok"))
    /\ UNCHANGED <<ipc, storage, data, index_loaded, docs, indexes, engines,
                   query_engine_tools, krun, last_run>>
    /\ UNCHANGED <<fusion_vars, tlm_vars, agent_vars, main_vars,
                   handler_vars, obs_vars, sparse_vars>>

\* The kernel is restarted and the notebook is run again from its first cell:
\* every name of the session is gone, the files stay.
RestartKernel ==
    /\ ipc # "load"
    /\ krun < MaxRuns
    /\ krun' = krun + 1
    /\ last_run' = RunSummary(itrace)
    /\ ipc' = "load"
    /\ index_loaded' = "unbound"
    /\ docs' = [n \in Names |-> NoDocs]
    /\ indexes' = [n \in Names |-> NoIndex]
    /\ engines' = [n \in Names |-> NoEngine]
    /\ query_engine_tools' = <<>>
    /\ itrace' = <<>>
    /\ UNCHANGED <<storage, data>>
    /\ UNCHANGED <<fusion_vars, tlm_vars, agent_vars, main_vars,
                   handler_vars, obs_vars, sparse_vars>>


----------------------------------------------------------------------------
(* Properties of GetTrustworthinessScore and display_response. *)

\* The LLMCompletionEndEvents delivered so far that carry a score: the events
\* handle() returns from.
ScoredCompletions ==
    SelectSeq(dispatched, LAMBDA e : e.type = "LLMCompletionEndEvent" /\ e.has_score)

IsPrefix(s, t) == Len(s) <= Len(t) /\ SubSeq(t, 1, Len(s)) = s

\* C6: after any sequence of events trustworthiness_score is the score of the
\* most recently handled LLMCompletionEndEvent, 0.0 when there is none; events
\* of any other type do not change it.
C6_ScoreOfLatestCompletion ==
    trustworthiness_score =
        IF ScoredCompletions = <<>> THEN 0
        ELSE ScoredCompletions[Len(ScoredCompletions)].score

\* Two completions with different scores, then an event of another type: the
\* score is the one of the second completion.
C6_Witness ==
    /\ Len(dispatched) >= 3
    /\ Len(ScoredCompletions) = 2
    /\ ScoredCompletions[1].score # ScoredCompletions[2].score
    /\ dispatched[Len(dispatched)].type = "BaseEvent"
    /\ trustworthiness_score = ScoredCompletions[2].score

\* C7: events holds exactly the handled LLMCompletionEndEvents, one entry per
\* event and in the order they were handled, so the score of every past LLM
\* request is in it; and the list only grows.
C7_EventsLogEveryCompletion ==
    /\ [](/\ events = ScoredCompletions
          /\ \A i, j \in DOMAIN events : i # j => events[i].id_ # events[j].id_)
    /\ [][IsPrefix(events, events')]_vars

\* Completions of two queries with an event of another type in between.
C7_Witness ==
    /\ Len(events) = 2
    /\ Len(dispatched) = 3
    /\ events[1].query # events[2].query
    /\ dispatched[2].type = "BaseEvent"

\* C8: when two queries run concurrently, display_response prints for each
\* query the score of that query's own response.
C8_DisplayPrintsOwnScore ==
    \A q \in Queries :
        (overlap /\ qpc[q] = "displayed" /\ response[q].has_score)
        => printed[q] = Round2(response[q].score)

\* C25: handling an LLMCompletionEndEvent whose additional_kwargs has no
\* "trustworthiness_score" key raises and changes nothing: the score keeps its
\* value and the event is not appended to events.
C25_MissingKeyRaisesStateKept ==
    [][(/\ Len(dispatched') = Len(dispatched) + 1
        /\ dispatched'[Len(dispatched')].type = "LLMCompletionEndEvent"
        /\ ~dispatched'[Len(dispatched')].has_score)
       => /\ handle(trustworthiness_score, events, dispatched'[Len(dispatched')]).raised
          /\ trustworthiness_score' = trustworthiness_score
          /\ events' = events]_vars

\* A completion with a score, then one without: the score and the one entry
\* of events are those of the first.
C25_Witness ==
    /\ Len(dispatched) = 2
    /\ dispatched[1].has_score
    /\ dispatched[1].score = 957
    /\ dispatched[2].type = "LLMCompletionEndEvent"
    /\ ~dispatched[2].has_score
    /\ trustworthiness_score = 957
    /\ events = <<dispatched[1]>>

----------------------------------------------------------------------------
(* Properties of the context-augmented agent. *)

\* C9: in every cell the retrieval has returned before the FunctionAgent is
\* constructed, and the agent is constructed before any of its tools is called:
\* no tool call precedes the retrieval for the query.
C9_RetrievalBeforeTools ==
    /\ \A i \in DOMAIN steps :
          steps[i] = "FunctionAgent"
          => \E j \in 1..(i - 1) : steps[j] = "aretrieve_done"
    /\ \A i \in DOMAIN steps :
          steps[i] = "tool_call"
          => \E j, k \in 1..(i - 1) :
                /\ j < k
                /\ steps[j] = "aretrieve_done"
                /\ steps[k] = "FunctionAgent"
    /\ (steps # <<>>) => (steps[1] = "aretrieve")

\* A run that called tools twice.
C9_Witness ==
    /\ apc = "idle"
    /\ ToolCallsOf(steps) = 2
    /\ steps[Len(steps)] = "response"
    /\ context_nodes # <<>>

\* C10: a run starts from the messages of an earlier run exactly when both
\* runs were given the same Context, whichever FunctionAgent instances ran.
C10_StateOnlyThroughContext ==
    /\ \A r \in DOMAIN runs : runs[r].ctx = 0 => runs[r].history = <<>>
    /\ \A r1, r2 \in DOMAIN runs :
          r1 < r2
          => ((\E i \in DOMAIN runs[r2].history : runs[r2].history[i] = r1)
              <=> (runs[r1].ctx # 0 /\ runs[r1].ctx = runs[r2].ctx))

\* The notebook's course: a run without ctx, then a ctx made from its agent
\* and two runs by two new FunctionAgent instances that are given that ctx; the
\* last starts from the messages of the second run and not of the first.
C10_Witness ==
    /\ Len(runs) = 3
    /\ apc = "idle"
    /\ runs[1].ctx = 0
    /\ runs[2].ctx # 0
    /\ runs[3].ctx = runs[2].ctx
    /\ runs[3].history = <<2>>
    /\ runs[2].agent # runs[3].agent
    /\ contexts[runs[2].ctx].made_from = runs[1].agent
    /\ contexts[runs[2].ctx].made_from \notin {runs[2].agent, runs[3].agent}

Count(seq, x) == Len(SelectSeq(seq, LAMBDA y : y = x))

\* C13: a call of get_agent_with_context_awareness issues one aretrieve call
\* and a run of main() issues one aget_text_embedding call; a call that raises
\* is not issued again, nothing of the function runs after it and the caller
\* is back in control with the failure.
C13_AsyncPassThrough ==
    /\ steps # <<>> => Count(steps, "aretrieve") = 1
    /\ Count(steps, "raised") > 0
       => /\ steps = <<"aretrieve", "raised">>
          /\ apc = "idle"
    /\ main_log # <<>>
       => /\ Count(main_log, "aget_text_embedding") = 1
          /\ main_log[1] = "aget_text_embedding"
    /\ Count(main_log, "raised") > 0
       => /\ main_log = <<"aget_text_embedding", "raised">>
          /\ mpc = "idle"
    /\ Count(main_log, "print") > 0
       => main_log = <<"aget_text_embedding", "returned", "print">>

\* The retrieval of the second call raised after the first call's agent ran,
\* and the embedding call of a run of main() raised.
C13_Witness ==
    /\ steps = <<"aretrieve", "raised">>
    /\ calls = 2
    /\ Len(runs) = 1
    /\ main_log = <<"aget_text_embedding", "raised">>

\* C16: the system prompt of the agent a call returns is the template with
\* {context} replaced by the texts of the retrieved nodes, in retrieval order,
\* with "\n----\n" between two texts and nothing when no node was retrieved;
\* its tools are the tools argument; the agent is a new one; and building it
\* changes neither the tools argument nor the retrieved nodes.
C16_AgentFromRetrievedContext ==
    /\ [](apc \in {"built", "running"}
          => LET n == Len(context_nodes)
                 p == agent.system_prompt
             IN  /\ Len(p) = 2 + (IF n = 0 THEN 0 ELSE 2 * n - 1)
                 /\ p[1] = "You are a helpful assistant. \nHere is some context that you can use to answer the user's question and for help with picking the right tool:\n\n"
                 /\ p[Len(p)] = "\n"
                 /\ \A i \in 1..n : p[2 * i] = context_nodes[i]
                 /\ \A i \in 1..(n - 1) : p[2 * i + 1] = "\n----\n"
                 /\ agent.tools = tools_arg
                 /\ agent.id = n_agents
                 /\ \A r \in DOMAIN runs :
                       runs[r].agent = agent.id => (r = Len(runs) /\ apc = "running"))
    /\ [][BuildAgent
          => /\ agent'.id # agent.id
             /\ tools_arg' = tools_arg
             /\ context_nodes' = context_nodes]_vars

\* The second call returned an agent built from two retrieved nodes and the
\* magic tool.
C16_Witness ==
    /\ apc = "built"
    /\ n_agents = 2
    /\ Len(context_nodes) = 2
    /\ tools_arg = MagicTools
    /\ Len(runs) = 1

----------------------------------------------------------------------------
(* Properties of the index cells. *)

Failed(c) == c.outcome # "ok"

CellRan(cell) ==
    CASE cell = "load"     -> ipc # "load"
      [] cell = "download" -> ipc \notin {"load", "download"}
      [] cell = "build"    -> ipc \notin {"load", "download", "build"}
      [] cell = "engines"  -> ipc \in {"tools", "query"}
      [] cell = "tools"    -> ipc = "query"

Happened(c) == \E i \in DOMAIN itrace : itrace[i] = c

HappenedBefore(c, i) == \E j \in 1..(i - 1) : itrace[j] = c

\* C11 as stated: every SDK call that fails raises out of its cell, no cell
\* catches a failure and runs on.
C11_SdkFailuresUncaught ==
    \A i \in DOMAIN itrace : Failed(itrace[i]) => itrace[i].outcome = "raised"

\* C11 as amended: a failing SDK call raises out of its cell and ends it,
\* except in the load cell, where the failure of a load is caught, ends the
\* loads, sets index_loaded to False and so sends the build cell down its
\* rebuild path.
C11_SdkFailuresCaughtOnlyByLoadCell ==
    /\ \A i \in DOMAIN itrace :
          Failed(itrace[i])
          => /\ (itrace[i].outcome = "caught") <=> (itrace[i].cell = "load")
             /\ (itrace[i].outcome = "raised") <=> (itrace[i].cell # "load")
             /\ i < Len(itrace) => itrace[i + 1].cell # itrace[i].cell
    /\ \A i \in DOMAIN itrace :
          itrace[i].outcome = "caught"
          => /\ index_loaded = "False"
             /\ CellRan("build")
                => \E j \in (i + 1)..Len(itrace) :
                      /\ itrace[j].cell = "build"
                      /\ itrace[j].call = "load_data"

\* A session in which a load failed and was caught, the build cell rebuilt all
\* three indexes, and a later session's build cell raised.
C11_Witness ==
    /\ \E i \in DOMAIN itrace : itrace[i].outcome = "caught"
    /\ \E i \in DOMAIN itrace : itrace[i].outcome = "raised" /\ itrace[i].cell = "build"
    /\ CellRan("build")
    /\ last_run.built

\* C12: a query is issued against an index only after its query engine was
\* made, the engine only after the index was loaded from storage or built,
\* and an index is built only after its documents were read, in the session
\* that loaded the indexes as in the one that rebuilt them.
C12_LinearOrder ==
    \A i \in DOMAIN itrace :
       LET n == itrace[i].name
           HasIndex(j) ==
               \/ HappenedBefore(Call("load", "load_index_from_storage", n, "ok"), j)
               \/ HappenedBefore(Call("build", "from_documents", n, "ok"), j)
       IN  /\ itrace[i].call = "query"
              => /\ HasIndex(i)
                 /\ HappenedBefore(Call("engines", "as_query_engine", n, "ok"), i)
                 /\ engines[n].index # NoIndex
                 /\ engines[n].index = indexes[n]
           /\ itrace[i] = Call("engines", "as_query_engine", n, "ok") => HasIndex(i)
           /\ itrace[i] = Call("build", "from_documents", n, "ok")
              => HappenedBefore(Call("build", "load_data", n, "ok"), i)

\* A query in a session that loaded its indexes, after a session that built
\* them.
C12_Witness ==
    /\ krun = 2
    /\ last_run.built
    /\ index_loaded = "True"
    /\ \E i \in DOMAIN itrace : itrace[i].call = "query"

AllBound == \A n \in Names : indexes[n] # NoIndex

BuildRaised == \E i \in DOMAIN itrace : itrace[i].cell = "build" /\ Failed(itrace[i])

C15_PersistLoadRoundTrip ==
    (last_run.built /\ last_run.persisted /\ CellRan("load"))
    => /\ index_loaded = "True"
       /\ \A n \in Names :
             /\ Happened(Call("load", "load_index_from_storage", n, "ok"))
             /\ indexes[n] = [origin |-> "loaded", docs |-> NormPath(InputFile[n])]
             /\ docs[n] = NoDocs
             /\ storage[NormPath(LoadDir[n])] = Persisted(NormPath(InputFile[n]))
       /\ \A i \in DOMAIN itrace : itrace[i].cell # "build"

\* The second session after a first one that built and persisted: its load
\* cell and its build cell have run.
C15_Witness ==
    /\ krun = 2
    /\ last_run.built
    /\ last_run.persisted
    /\ CellRan("build")
    /\ index_loaded = "True"

----------------------------------------------------------------------------
(* Properties of the handler cell run more than once. *)

\* The completions carrying a score that were delivered after the first n
\* events.
ScoredSince(n) ==
    SelectSeq(SubSeq(dispatched, n + 1, Len(dispatched)),
              LAMBDA e : e.type = "LLMCompletionEndEvent" /\ e.has_score)

\* The number of entries the instances registered[1..k] of class c have
\* appended.
RECURSIVE AppendsOf(_, _)
AppendsOf(c, k) ==
    IF k = 0 THEN 0
    ELSE AppendsOf(c, k - 1)
         + (IF registered[k].class = c THEN Len(ScoredSince(registered[k].since)) ELSE 0)

\* The events list event_handler.events: the list of the class of the
\* instance registered last.
EventHandlerEvents == class_events[registered[Len(registered)].class]

\* C26 as stated: when the handler cell has been run again before any event,
\* so that several instances are on the dispatcher, the events list holds
\* (number of registered instances) x (number of completion events) entries.
C26_ListTimesRegisteredInstances ==
    (/\ \A i \in 1..Len(registered) : registered[i].by_cell /\ registered[i].since = 0)
        => Len(EventHandlerEvents) = Len(registered) * Len(ScoredSince(0))

\* C26 (amended): events is one list per class object, shared by the instances
\* of that class, and trustworthiness_score is per instance. Every run of the
\* handler cell makes a new class object with a new list, so the instances of
\* two runs of the cell share no list: each list holds one entry per completion
\* and per instance OF ITS CLASS registered when the completion was delivered.
\* Only instances made without running the class statement again multiply the
\* entries of one list.
C26_ListTimesInstancesOfTheClass ==
    /\ \A c \in 1..Len(class_events) :
          Len(class_events[c]) = AppendsOf(c, Len(registered))
    /\ \A i, j \in 1..Len(registered) :
          (i # j /\ registered[i].by_cell /\ registered[j].by_cell)
              => registered[i].class # registered[j].class
    /\ \A i \in 1..Len(registered) :
          registered[i].trustworthiness_score =
              IF ScoredSince(registered[i].since) = <<>> THEN 0
              ELSE ScoredSince(registered[i].since)
                       [Len(ScoredSince(registered[i].since))].score

\* The cell was run twice before any event and a third instance of the second
\* class was registered after the first of two completions: the list of the
\* first class has two entries, the list of the second class three, and the
\* late instance holds the second score only.
C26_Witness ==
    /\ Len(registered) = 3
    /\ registered[1].class = 1 /\ registered[2].class = 2 /\ registered[3].class = 2
    /\ registered[2].since = 0 /\ registered[3].since = 1
    /\ ~registered[3].by_cell
    /\ Len(ScoredSince(0)) = 2
    /\ Len(class_events[1]) = 2
    /\ Len(class_events[2]) = 3
    /\ registered[3].trustworthiness_score = dispatched[Len(dispatched)].score

----------------------------------------------------------------------------
(* Properties of Observability.ipynb. *)

\* The spans of queries Phoenix holds.
AllQuerySpans == QuerySpans(spans, Len(spans))

\* C27: set_global_handler("arize_phoenix") runs after the Phoenix session is
\* launched and before the index is created and before the first query: until
\* it has run there is no span (no trace at launch), no index and no query
\* call; an installed handler has a session to send to; every
\* query_engine.query call finds the handler installed and has exactly its
\* own span, in the order of the calls.
C27_TracingCoversEveryQuery ==
    /\ ~Ran("tracing") => /\ spans = <<>>
                          /\ query_calls = <<>>
                          /\ obs_index = 0
                          /\ global_handler = "none"
    /\ global_handler = "arize_phoenix" => session
    /\ \A i \in 1..Len(query_calls) : query_calls[i].handler = "arize_phoenix"
    /\ Len(AllQuerySpans) = Len(query_calls)
    /\ \A i \in 1..Len(AllQuerySpans) : AllQuerySpans[i].call = query_calls[i].call

\* The three queries of the notebook have been made: the index build was
\* traced first, then each query.
C27_Witness ==
    /\ Ran("print")
    /\ Len(query_calls) = 3
    /\ Len(spans) = 4
    /\ spans[1].kind = "embedding"
    /\ \A i \in 1..3 : spans[i + 1] = QuerySpan(i, SimilarityTopK)

\* The number of traced queries a dataframe was exported from.
TracedQueries(frame) == Len(QuerySpans(spans, frame.spans_seen))

\* The run_evals result hands back one dataframe per evaluator, in the order
\* of the evaluators, each with one row per input row, after rows x
\* evaluators evaluations.
EvalsMatch(run) ==
    /\ Len(run.results) = Len(run.evaluators)
    /\ \A i \in 1..Len(run.evaluators) :
          /\ run.results[i].evaluator = run.evaluators[i]
          /\ run.results[i].rows = run.input_rows
    /\ run.evaluations = run.input_rows * Len(run.evaluators)

\* C28: the exported dataframes match the traced queries: after N traced
\* queries with similarity_top_k = 5, queries_df has N rows, one per query,
\* and retrieved_documents_df has 5N rows, one per retrieved document;
\* run_evals makes rows x evaluators evaluations and returns one dataframe per
\* evaluator in the given order; for N = 3 these are 6 evaluations over
\* queries_df and 15 over retrieved_documents_df.
C28_ExportMatchesQueries ==
    /\ queries_df.bound =>
          /\ Len(queries_df.rows) = TracedQueries(queries_df)
          /\ \A i \in 1..Len(queries_df.rows) : queries_df.rows[i].call = i
    /\ retrieved_documents_df.bound =>
          /\ Len(retrieved_documents_df.rows)
                 = SimilarityTopK * TracedQueries(retrieved_documents_df)
          /\ \A n \in 1..TracedQueries(retrieved_documents_df) :
                \A k \in 1..SimilarityTopK :
                    retrieved_documents_df.rows[(n - 1) * SimilarityTopK + k]
                        = [call |-> n, position |-> k]
    /\ \A r \in 1..Len(eval_runs) : EvalsMatch(eval_runs[r])
    /\ (eval_runs # <<>> /\ eval_runs[1].input_rows = 3) =>
          /\ eval_runs[1].evaluations = 6
          /\ eval_runs[2].input_rows = 15 => eval_runs[2].evaluations = 15

\* The notebook as written: three traced queries, exported and evaluated, 3
\* and 15 rows, 6 and 15 evaluations, two dataframes and one.
C28_Witness ==
    /\ Len(query_calls) = 3
    /\ queries_df.bound /\ Len(queries_df.rows) = 3
    /\ retrieved_documents_df.bound /\ Len(retrieved_documents_df.rows) = 15
    /\ Len(eval_runs) = 2
    /\ eval_runs[1].evaluations = 6
    /\ eval_runs[2].evaluations = 15
    /\ Len(eval_runs[1].results) = 2
    /\ eval_runs[1].results[2].evaluator = "qa_correctness_evaluator"
    /\ Len(eval_runs[2].results) = 1

----------------------------------------------------------------------------
(* Properties of sparse_doc_vectors and sparse_query_vectors. *)

\* C29: for n texts the functions return n index lists and n value lists; for
\* every text the two lists have the same length, the index list holds, in
\* increasing order, exactly the positions whose pooled weight is not zero,
\* every value is the pooled weight at its index, and every value is strictly
\* positive.
C29_SparseVectorsWellFormed ==
    spc # "idle" =>
        /\ Len(sparse_out.indices) = Len(tvecs)
        /\ Len(sparse_out.vecs) = Len(tvecs)
        /\ \A i \in 1..Len(tvecs) :
              LET ind == sparse_out.indices[i]
                  vec == sparse_out.vecs[i]
              IN  /\ Len(ind) = Len(vec)
                  /\ \A j \in 1..(Len(ind) - 1) : ind[j] < ind[j + 1]
                  /\ {ind[j] : j \in 1..Len(ind)}
                         = {p - 1 : p \in {q \in 1..Len(tvecs[i]) : tvecs[i][q] # 0}}
                  /\ \A j \in 1..Len(ind) : /\ vec[j] = tvecs[i][ind[j] + 1]
                                            /\ vec[j] > 0

\* Two texts: both positions of the first have different weights, only the
\* second position of the second text has one.
C29_Witness ==
    /\ spc = "doc"
    /\ Len(tvecs) = 2
    /\ sparse_out.indices = << <<0, 1>>, <<1>> >>
    /\ sparse_out.vecs = << <<1099, 693>>, <<693>> >>

----------------------------------------------------------------------------
(* The specifications. *)

\* Each notebook is run on its own: the variables of the other two keep their
\* first values.

\* index.as_query_engine(similarity_top_k=..., sparse_top_k=..., alpha=...,
\* vector_store_query_mode="hybrid"), before the query.

NextFusion == Retrieve \/ Fuse

StartFusion ==
    /\ fpc = "idle"
    /\ sparse_top_k \in 1..MaxNode
    /\ top_k \in 0..MaxTopK
    /\ alpha \in Alphas
    /\ dense_result = EmptyResult
    /\ sparse_result = EmptyResult
    /\ all_nodes_dict = <<>>
    /\ fused_result = NoResult
    /\ trustworthiness_score = 0
    /\ events = <<>>
    /\ dispatched = <<>>
    /\ qpc = [q \in Queries |-> "idle"]
    /\ response = [q \in Queries |-> NoResponse]
    /\ printed = [q \in Queries |-> -1]
    /\ overlap = FALSE
    /\ apc = "idle"
    /\ calls = 0
    /\ tools_arg = <<>>
    /\ steps = <<>>
    /\ context_nodes = <<>>
    /\ agent = NoAgent
    /\ n_agents = 0
    /\ ctx = 0
    /\ contexts = <<>>
    /\ runs = <<>>
    /\ mpc = "idle"
    /\ main_log = <<>>
    /\ ipc = "load"
    /\ storage = [d \in Dirs |-> Absent]
    /\ data = [f \in Files |-> "missing"]
    /\ index_loaded = "unbound"
    /\ docs = [n \in Names |-> NoDocs]
    /\ indexes = [n \in Names |-> NoIndex]
    /\ engines = [n \in Names |-> NoEngine]
    /\ query_engine_tools = <<>>
    /\ itrace = <<>>
    /\ krun = 1
    /\ last_run = [built |-> FALSE, persisted |-> FALSE]
    /\ registered = <<Instance(1, 0)>>
    /\ class_events = << <<>> >>
    /\ opc = 1
    /\ essay_file = FALSE
    /\ query_calls = <<>>
    /\ session = FALSE
    /\ global_handler = "none"
    /\ spans = <<>>
    /\ documents = "unbound"
    /\ obs_index = 0
    /\ query_engine = 0
    /\ queries_df = NoFrame
    /\ retrieved_documents_df = NoFrame
    /\ eval_runs = <<>>
    /\ spc = "idle"
    /\ tvecs = <<>>
    /\ sparse_out = [indices |-> <<>>, vecs |-> <<>>]

SpecFusion == StartFusion /\ [][NextFusion]_vars

NextTLM ==
    \/ \E q \in Queries : StartQuery(q)
    \/ \E q \in Queries : EmitOther(q)
    \/ \E q \in Queries : EmitCompletion(q)
    \/ \E q \in Queries : ReturnResponse(q)
    \/ \E q \in Queries : DisplayResponse(q)

\* The state after the handler cell: one GetTrustworthinessScore instance,
\* registered on the root dispatcher, no event yet and no query started.
StartTLM ==
    /\ fpc = "idle"
    /\ sparse_top_k = 1
    /\ top_k = 0
    /\ alpha = Zero
    /\ dense_result = EmptyResult
    /\ sparse_result = EmptyResult
    /\ all_nodes_dict = <<>>
    /\ fused_result = NoResult
    /\ trustworthiness_score = 0
    /\ events = <<>>
    /\ dispatched = <<>>
    /\ qpc = [q \in Queries |-> "idle"]
    /\ response = [q \in Queries |-> NoResponse]
    /\ printed = [q \in Queries |-> -1]
    /\ overlap = FALSE
    /\ apc = "idle"
    /\ calls = 0
    /\ tools_arg = <<>>
    /\ steps = <<>>
    /\ context_nodes = <<>>
    /\ agent = NoAgent
    /\ n_agents = 0
    /\ ctx = 0
    /\ contexts = <<>>
    /\ runs = <<>>
    /\ mpc = "idle"
    /\ main_log = <<>>
    /\ ipc = "load"
    /\ storage = [d \in Dirs |-> Absent]
    /\ data = [f \in Files |-> "missing"]
    /\ index_loaded = "unbound"
    /\ docs = [n \in Names |-> NoDocs]
    /\ indexes = [n \in Names |-> NoIndex]
    /\ engines = [n \in Names |-> NoEngine]
    /\ query_engine_tools = <<>>
    /\ itrace = <<>>
    /\ krun = 1
    /\ last_run = [built |-> FALSE, persisted |-> FALSE]
    /\ registered = <<Instance(1, 0)>>
    /\ class_events = << <<>> >>
    /\ opc = 1
    /\ essay_file = FALSE
    /\ query_calls = <<>>
    /\ session = FALSE
    /\ global_handler = "none"
    /\ spans = <<>>
    /\ documents = "unbound"
    /\ obs_index = 0
    /\ query_engine = 0
    /\ queries_df = NoFrame
    /\ retrieved_documents_df = NoFrame
    /\ eval_runs = <<>>
    /\ spc = "idle"
    /\ tvecs = <<>>
    /\ sparse_out = [indices |-> <<>>, vecs |-> <<>>]

SpecTLM == StartTLM /\ [][NextTLM]_vars

NextAgent ==
    \/ CallGetAgent
    \/ RetrieveReturns
    \/ RetrieveRaises
    \/ BuildAgent
    \/ StartRun
    \/ ToolCall
    \/ FinishRun
    \/ MakeContext
    \/ CallMain
    \/ EmbeddingReturns
    \/ EmbeddingRaises

\* The state before the first query cell: no call yet, agent and ctx unbound.
StartAgent ==
    /\ fpc = "idle"
    /\ sparse_top_k = 1
    /\ top_k = 0
    /\ alpha = Zero
    /\ dense_result = EmptyResult
    /\ sparse_result = EmptyResult
    /\ all_nodes_dict = <<>>
    /\ fused_result = NoResult
    /\ trustworthiness_score = 0
    /\ events = <<>>
    /\ dispatched = <<>>
    /\ qpc = [q \in Queries |-> "idle"]
    /\ response = [q \in Queries |-> NoResponse]
    /\ printed = [q \in Queries |-> -1]
    /\ overlap = FALSE
    /\ apc = "idle"
    /\ calls = 0
    /\ tools_arg = <<>>
    /\ steps = <<>>
    /\ context_nodes = <<>>
    /\ agent = NoAgent
    /\ n_agents = 0
    /\ ctx = 0
    /\ contexts = <<>>
    /\ runs = <<>>
    /\ mpc = "idle"
    /\ main_log = <<>>
    /\ ipc = "load"
    /\ storage = [d \in Dirs |-> Absent]
    /\ data = [f \in Files |-> "missing"]
    /\ index_loaded = "unbound"
    /\ docs = [n \in Names |-> NoDocs]
    /\ indexes = [n \in Names |-> NoIndex]
    /\ engines = [n \in Names |-> NoEngine]
    /\ query_engine_tools = <<>>
    /\ itrace = <<>>
    /\ krun = 1
    /\ last_run = [built |-> FALSE, persisted |-> FALSE]
    /\ registered = <<Instance(1, 0)>>
    /\ class_events = << <<>> >>
    /\ opc = 1
    /\ essay_file = FALSE
    /\ query_calls = <<>>
    /\ session = FALSE
    /\ global_handler = "none"
    /\ spans = <<>>
    /\ documents = "unbound"
    /\ obs_index = 0
    /\ query_engine = 0
    /\ queries_df = NoFrame
    /\ retrieved_documents_df = NoFrame
    /\ eval_runs = <<>>
    /\ spc = "idle"
    /\ tvecs = <<>>
    /\ sparse_out = [indices |-> <<>>, vecs |-> <<>>]

SpecAgent == StartAgent /\ [][NextAgent]_vars

NextIndex ==
    \/ LoadCell
    \/ DownloadCell
    \/ BuildCell
    \/ EngineCell
    \/ ToolsCell
    \/ IssueQuery
    \/ RestartKernel

\* The first kernel session, before the load cell: ./storage and data/10q are
\* as earlier sessions of the notebook left them.
StartIndex ==
    /\ fpc = "idle"
    /\ sparse_top_k = 1
    /\ top_k = 0
    /\ alpha = Zero
    /\ dense_result = EmptyResult
    /\ sparse_result = EmptyResult
    /\ all_nodes_dict = <<>>
    /\ fused_result = NoResult
    /\ trustworthiness_score = 0
    /\ events = <<>>
    /\ dispatched = <<>>
    /\ qpc = [q \in Queries |-> "idle"]
    /\ response = [q \in Queries |-> NoResponse]
    /\ printed = [q \in Queries |-> -1]
    /\ overlap = FALSE
    /\ apc = "idle"
    /\ calls = 0
    /\ tools_arg = <<>>
    /\ steps = <<>>
    /\ context_nodes = <<>>
    /\ agent = NoAgent
    /\ n_agents = 0
    /\ ctx = 0
    /\ contexts = <<>>
    /\ runs = <<>>
    /\ mpc = "idle"
    /\ main_log = <<>>
    /\ ipc = "load"
    /\ storage \in {st \in [Dirs -> UNION {StorageStates(d) : d \in Dirs}] :
                      \A d \in Dirs : st[d] \in StorageStates(d)}
    /\ data = [f \in Files |-> "missing"]
    /\ index_loaded = "unbound"
    /\ docs = [n \in Names |-> NoDocs]
    /\ indexes = [n \in Names |-> NoIndex]
    /\ engines = [n \in Names |-> NoEngine]
    /\ query_engine_tools = <<>>
    /\ itrace = <<>>
    /\ krun = 1
    /\ last_run = [built |-> FALSE, persisted |-> FALSE]
    /\ registered = <<Instance(1, 0)>>
    /\ class_events = << <<>> >>
    /\ opc = 1
    /\ essay_file = FALSE
    /\ query_calls = <<>>
    /\ session = FALSE
    /\ global_handler = "none"
    /\ spans = <<>>
    /\ documents = "unbound"
    /\ obs_index = 0
    /\ query_engine = 0
    /\ queries_df = NoFrame
    /\ retrieved_documents_df = NoFrame
    /\ eval_runs = <<>>
    /\ spc = "idle"
    /\ tvecs = <<>>
    /\ sparse_out = [indices |-> <<>>, vecs |-> <<>>]

SpecIndex == StartIndex /\ [][NextIndex]_vars

NextHandlers ==
    \/ RunHandlerCell
    \/ RegisterInstance
    \/ DispatchEvent

\* The state after the first run of the handler cell: one class, one instance
\* of it on the root dispatcher, no event yet.
StartHandlers ==
    /\ fpc = "idle"
    /\ sparse_top_k = 1
    /\ top_k = 0
    /\ alpha = Zero
    /\ dense_result = EmptyResult
    /\ sparse_result = EmptyResult
    /\ all_nodes_dict = <<>>
    /\ fused_result = NoResult
    /\ trustworthiness_score = 0
    /\ events = <<>>
    /\ dispatched = <<>>
    /\ qpc = [q \in Queries |-> "idle"]
    /\ response = [q \in Queries |-> NoResponse]
    /\ printed = [q \in Queries |-> -1]
    /\ overlap = FALSE
    /\ apc = "idle"
    /\ calls = 0
    /\ tools_arg = <<>>
    /\ steps = <<>>
    /\ context_nodes = <<>>
    /\ agent = NoAgent
    /\ n_agents = 0
    /\ ctx = 0
    /\ contexts = <<>>
    /\ runs = <<>>
    /\ mpc = "idle"
    /\ main_log = <<>>
    /\ ipc = "load"
    /\ storage = [d \in Dirs |-> Absent]
    /\ data = [f \in Files |-> "missing"]
    /\ index_loaded = "unbound"
    /\ docs = [n \in Names |-> NoDocs]
    /\ indexes = [n \in Names |-> NoIndex]
    /\ engines = [n \in Names |-> NoEngine]
    /\ query_engine_tools = <<>>
    /\ itrace = <<>>
    /\ krun = 1
    /\ last_run = [built |-> FALSE, persisted |-> FALSE]
    /\ registered = <<Instance(1, 0)>>
    /\ class_events = << <<>> >>
    /\ opc = 1
    /\ essay_file = FALSE
    /\ query_calls = <<>>
    /\ session = FALSE
    /\ global_handler = "none"
    /\ spans = <<>>
    /\ documents = "unbound"
    /\ obs_index = 0
    /\ query_engine = 0
    /\ queries_df = NoFrame
    /\ retrieved_documents_df = NoFrame
    /\ eval_runs = <<>>
    /\ spc = "idle"
    /\ tvecs = <<>>
    /\ sparse_out = [indices |-> <<>>, vecs |-> <<>>]

SpecHandlers == StartHandlers /\ [][NextHandlers]_vars

NextObs ==
    \/ LaunchCell
    \/ ObsDownloadCell
    \/ LoadDataCell
    \/ TracingCell
    \/ IndexCell
    \/ ObsEngineCell
    \/ LoopCell
    \/ PrintQueryCell
    \/ ExportCell
    \/ EvalsCell

\* A new kernel: no cell of Observability.ipynb has run.
StartObs ==
    /\ fpc = "idle"
    /\ sparse_top_k = 1
    /\ top_k = 0
    /\ alpha = Zero
    /\ dense_result = EmptyResult
    /\ sparse_result = EmptyResult
    /\ all_nodes_dict = <<>>
    /\ fused_result = NoResult
    /\ trustworthiness_score = 0
    /\ events = <<>>
    /\ dispatched = <<>>
    /\ qpc = [q \in Queries |-> "idle"]
    /\ response = [q \in Queries |-> NoResponse]
    /\ printed = [q \in Queries |-> -1]
    /\ overlap = FALSE
    /\ apc = "idle"
    /\ calls = 0
    /\ tools_arg = <<>>
    /\ steps = <<>>
    /\ context_nodes = <<>>
    /\ agent = NoAgent
    /\ n_agents = 0
    /\ ctx = 0
    /\ contexts = <<>>
    /\ runs = <<>>
    /\ mpc = "idle"
    /\ main_log = <<>>
    /\ ipc = "load"
    /\ storage = [d \in Dirs |-> Absent]
    /\ data = [f \in Files |-> "missing"]
    /\ index_loaded = "unbound"
    /\ docs = [n \in Names |-> NoDocs]
    /\ indexes = [n \in Names |-> NoIndex]
    /\ engines = [n \in Names |-> NoEngine]
    /\ query_engine_tools = <<>>
    /\ itrace = <<>>
    /\ krun = 1
    /\ last_run = [built |-> FALSE, persisted |-> FALSE]
    /\ registered = <<Instance(1, 0)>>
    /\ class_events = << <<>> >>
    /\ opc = 1
    /\ essay_file = FALSE
    /\ query_calls = <<>>
    /\ session = FALSE
    /\ global_handler = "none"
    /\ spans = <<>>
    /\ documents = "unbound"
    /\ obs_index = 0
    /\ query_engine = 0
    /\ queries_df = NoFrame
    /\ retrieved_documents_df = NoFrame
    /\ eval_runs = <<>>
    /\ spc = "idle"
    /\ tvecs = <<>>
    /\ sparse_out = [indices |-> <<>>, vecs |-> <<>>]

SpecObs == StartObs /\ [][NextObs]_vars

NextSparse ==
    \/ CallSparseDocVectors
    \/ CallSparseQueryVectors
    \/ SparseDone

\* No call of the two functions has been made.
StartSparse ==
    /\ fpc = "idle"
    /\ sparse_top_k = 1
    /\ top_k = 0
    /\ alpha = Zero
    /\ dense_result = EmptyResult
    /\ sparse_result = EmptyResult
    /\ all_nodes_dict = <<>>
    /\ fused_result = NoResult
    /\ trustworthiness_score = 0
    /\ events = <<>>
    /\ dispatched = <<>>
    /\ qpc = [q \in Queries |-> "idle"]
    /\ response = [q \in Queries |-> NoResponse]
    /\ printed = [q \in Queries |-> -1]
    /\ overlap = FALSE
    /\ apc = "idle"
    /\ calls = 0
    /\ tools_arg = <<>>
    /\ steps = <<>>
    /\ context_nodes = <<>>
    /\ agent = NoAgent
    /\ n_agents = 0
    /\ ctx = 0
    /\ contexts = <<>>
    /\ runs = <<>>
    /\ mpc = "idle"
    /\ main_log = <<>>
    /\ ipc = "load"
    /\ storage = [d \in Dirs |-> Absent]
    /\ data = [f \in Files |-> "missing"]
    /\ index_loaded = "unbound"
    /\ docs = [n \in Names |-> NoDocs]
    /\ indexes = [n \in Names |-> NoIndex]
    /\ engines = [n \in Names |-> NoEngine]
    /\ query_engine_tools = <<>>
    /\ itrace = <<>>
    /\ krun = 1
    /\ last_run = [built |-> FALSE, persisted |-> FALSE]
    /\ registered = <<Instance(1, 0)>>
    /\ class_events = << <<>> >>
    /\ opc = 1
    /\ essay_file = FALSE
    /\ query_calls = <<>>
    /\ session = FALSE
    /\ global_handler = "none"
    /\ spans = <<>>
    /\ documents = "unbound"
    /\ obs_index = 0
    /\ query_engine = 0
    /\ queries_df = NoFrame
    /\ retrieved_documents_df = NoFrame
    /\ eval_runs = <<>>
    /\ spc = "idle"
    /\ tvecs = <<>>
    /\ sparse_out = [indices |-> <<>>, vecs |-> <<>>]

SpecSparse == StartSparse /\ [][NextSparse]_vars

=============================================================================
